---- MODULE Spec2Model ----
(***************************************************************************)
(* State-machine model of the sendspin-js receiver core: the session       *)
(* state (StateManager), the protocol engine (ProtocolHandler), the decode *)
(* front-end and the scheduler (AudioProcessor), and the player facade     *)
(* (SendspinPlayer).                                                       *)
(*                                                                         *)
(* Conventions.                                                            *)
(*  - All times are integer microseconds.  The sink clock                  *)
(*    (AudioContext.currentTime, seconds in the source) and the local      *)
(*    monotonic clock (performance.now) are both read from host.now.       *)
(*  - Playback rates are integer per-cent (100 = 1.0, 102 = 1.02).         *)
(*  - Every handler of the event loop is one action.  A handler is a       *)
(*    sequence of statements; each statement is an operator from a world   *)
(*    record w = [sm, ap, tf, ws, host, pass] to a world record, and the   *)
(*    handler is their composition in source order.                        *)
(***************************************************************************)
EXTENDS Integers, Sequences, FiniteSets, TLC

VARIABLES
  stateManager,    \* StateManager fields
  audioProcessor,  \* AudioProcessor fields
  timeFilter,      \* SendspinTimeFilter state
  wsManager,       \* WebSocketManager: channel state and the frames sent by the last handler
  host,            \* what the browser holds: clock, audio sink, timers, external volume
  decoding,        \* decodes in flight (awaited promises, native decoder queue)
  lastEvent,       \* the event the last handler processed
  lastPass         \* what the last handler's scheduling pass did, frame by frame

vars == <<stateManager, audioProcessor, timeFilter, wsManager, host, decoding,
          lastEvent, lastPass>>

(***************************************************************************)
(* Bounds of the model.                                                    *)
(***************************************************************************)
MaxGeneration == 5
MaxChunks == 3
MaxTimerId == 4
MaxTicks == 1

(***************************************************************************)
(* Program constants.                                                      *)
(***************************************************************************)
BUFFER_US == 200000
GAP_US == 100000
SYNC_ERROR_ALPHA_PCT == 10

\* The delay of the debounce timer, in microseconds.
DEBOUNCE_US == 50 * 1000

Modes == {"sync", "quality", "quality-local"}

\* Thresholds in microseconds; Infinity is a value no model error reaches.
CORRECTION_THRESHOLDS ==
  [m \in Modes |->
     CASE m = "sync" ->
            [resyncAboveMs |-> 200000, rate2AboveMs |-> 35000,
             rate1AboveMs |-> 8000, samplesBelowMs |-> 8000,
             deadbandBelowMs |-> 1000, timeFilterMaxErrorMs |-> 15000]
       [] m = "quality" ->
            [resyncAboveMs |-> 35000, rate2AboveMs |-> 2000000000,
             rate1AboveMs |-> 2000000000, samplesBelowMs |-> 35000,
             deadbandBelowMs |-> 1000, timeFilterMaxErrorMs |-> 8000]
       [] m = "quality-local" ->
            [resyncAboveMs |-> 600000, rate2AboveMs |-> 2000000000,
             rate1AboveMs |-> 2000000000, samplesBelowMs |-> 600000,
             deadbandBelowMs |-> 5000, timeFilterMaxErrorMs |-> 10000]]

Abs(x) == IF x < 0 THEN -x ELSE x

\* The JavaScript number NaN, as a value no computation of the model yields.
NaN == -2147483647

\* Math.min and Math.max: NaN if an argument is NaN.
Min(a, b) == IF a = NaN \/ b = NaN THEN NaN ELSE IF a < b THEN a ELSE b
Max(a, b) == IF a = NaN \/ b = NaN THEN NaN ELSE IF a > b THEN a ELSE b

\* JavaScript number division of integers that may be negative, rounded to
\* the nearest microsecond toward zero.
Quot(a, b) == IF a >= 0 THEN a \div b ELSE -((-a) \div b)

(***************************************************************************)
(* Values.                                                                 *)
(***************************************************************************)
NoFormat == "null"

\* `message.payload.player` of a stream/start whose payload has no player.
Undefined == "undefined"
Codecs == {"pcm", "flac", "opus"}

\* One sample at the default 48 kHz stream rate, microseconds.
SamplePeriodUs == 1000000 \div 48000

World == [sm |-> stateManager, ap |-> audioProcessor, tf |-> timeFilter,
          ws |-> [wsManager EXCEPT !.sent = <<>>], host |-> host,
          pass |-> [generation |-> 0, queued |-> <<>>,
                    audioContextTime |-> 0, frames |-> <<>>]]

Commit(w) ==
  /\ stateManager' = w.sm
  /\ audioProcessor' = w.ap
  /\ timeFilter' = w.tf
  /\ wsManager' = w.ws
  /\ host' = w.host
  /\ lastPass' = w.pass

(***************************************************************************)
(* WebSocketManager.  send() puts a frame on the wire when the channel is  *)
(* open and drops it otherwise.  Each frame is recorded with what the      *)
(* session state was at the moment it was sent.                            *)
(***************************************************************************)
send(w, message) ==
  IF w.ws.open
    THEN [w EXCEPT !.ws.sent =
            Append(@, [message |-> message,
                       seen |-> [isPlaying |-> w.sm.isPlaying,
                                 currentStreamFormat |-> w.sm.currentStreamFormat,
                                 volume |-> w.sm.volume,
                                 muted |-> w.sm.muted,
                                 is_synchronized |-> w.tf.is_synchronized,
                                 queued |-> Len(w.ap.audioBufferQueue),
                                 scheduled |-> Len(w.ap.scheduledSources)]])]
    ELSE w

(***************************************************************************)
(* StateManager.                                                           *)
(***************************************************************************)
setVolumeField(w, value) == [w EXCEPT !.sm.volume = Max(0, Min(100, value))]

setMutedField(w, value) == [w EXCEPT !.sm.muted = value]

resetStreamAnchors(w) == [w EXCEPT !.sm.streamGeneration = @ + 1]

\* setInterval() of the host followed by StateManager.setTimeSyncInterval /
\* setStateUpdateInterval: the new timer is created first, then the stored
\* one is cleared and replaced.
startIntervalWithoutClear(w, kind) ==
  LET id == w.host.timersCreated + 1
      created == [w EXCEPT !.host.timersCreated = id,
                           !.host.intervals = @ \cup {[id |-> id, kind |-> kind]}]
  IN IF kind = "time"
       THEN [created EXCEPT !.sm.timeSyncInterval = id]
       ELSE [created EXCEPT !.sm.stateUpdateInterval = id]

startInterval(w, kind) ==
  LET id == w.host.timersCreated + 1
      old == IF kind = "time" THEN w.sm.timeSyncInterval
                              ELSE w.sm.stateUpdateInterval
      created == [w EXCEPT !.host.timersCreated = id,
                           !.host.intervals = @ \cup {[id |-> id, kind |-> kind]}]
      cleared == [created EXCEPT !.host.intervals = {t \in @ : t.id # old}]
  IN IF kind = "time"
       THEN [cleared EXCEPT !.sm.timeSyncInterval = id]
       ELSE [cleared EXCEPT !.sm.stateUpdateInterval = id]

clearAllIntervals(w) ==
  [w EXCEPT !.host.intervals =
              {t \in @ : t.id # w.sm.timeSyncInterval
                         /\ t.id # w.sm.stateUpdateInterval},
            !.sm.timeSyncInterval = 0,
            !.sm.stateUpdateInterval = 0]

(***************************************************************************)
(* JSON values of the cached server and group state.  An object is a       *)
(* function from its keys to values; a value is null, a leaf (a number or  *)
(* a string), an array, or an object.                                      *)
(***************************************************************************)
EmptyObject == <<>>
Null == [kind |-> "null", value |-> 0, fields |-> EmptyObject]
Leaf(v) == [kind |-> "leaf", value |-> v, fields |-> EmptyObject]
Array(v) == [kind |-> "array", value |-> v, fields |-> EmptyObject]
Object(fields) == [kind |-> "object", value |-> 0, fields |-> fields]

replaceByDiff(existing, diff) == diff

\* applyDiff: a copy of `existing` in which every key of `diff` is deleted
\* (null), merged recursively (both values are plain objects) or replaced.
RECURSIVE applyDiff(_, _)
applyDiff(existing, diff) ==
  LET deleted == {key \in DOMAIN diff : diff[key].kind = "null"}
      assigned(key) ==
        IF /\ diff[key].kind = "object"
           /\ key \in DOMAIN existing
           /\ existing[key].kind = "object"
          THEN Object(applyDiff(existing[key].fields, diff[key].fields))
          ELSE diff[key]
  IN [key \in (DOMAIN existing \cup DOMAIN diff) \ deleted |->
        IF key \in DOMAIN diff THEN assigned(key) ELSE existing[key]]

updateServerState(w, delta) ==
  [w EXCEPT !.sm.serverState = applyDiff(@, delta)]

updateGroupState(w, delta) ==
  [w EXCEPT !.sm.groupState = applyDiff(@, delta)]

\* reset that keeps the stream format.
resetKeepsFormat(w) ==
  clearAllIntervals([w EXCEPT !.sm.volume = 100,
                              !.sm.muted = FALSE,
                              !.sm.playerState = "synchronized",
                              !.sm.isPlaying = FALSE,
                              !.sm.serverState = EmptyObject,
                              !.sm.groupState = EmptyObject])

reset(w) ==
  clearAllIntervals([w EXCEPT !.sm.volume = 100,
                              !.sm.muted = FALSE,
                              !.sm.playerState = "synchronized",
                              !.sm.isPlaying = FALSE,
                              !.sm.currentStreamFormat = NoFormat,
                              !.sm.serverState = EmptyObject,
                              !.sm.groupState = EmptyObject])

(***************************************************************************)
(* AudioProcessor: gain, sink bookkeeping, buffer clear.                   *)
(***************************************************************************)
\* updateVolume without the hardware-volume branch.
updateVolumeSoftware(w) ==
  IF ~w.ap.audioContext THEN w
  ELSE IF w.sm.muted THEN [w EXCEPT !.ap.gain = 0]
  ELSE [w EXCEPT !.ap.gain = w.sm.volume]

updateVolume(w) ==
  IF ~w.ap.audioContext THEN w
  ELSE IF w.ap.useHardwareVolume THEN [w EXCEPT !.ap.gain = 100]
  ELSE IF w.sm.muted THEN [w EXCEPT !.ap.gain = 0]
  ELSE [w EXCEPT !.ap.gain = w.sm.volume]

initAudioContext(w) ==
  IF w.ap.audioContext THEN w
  ELSE updateVolume([w EXCEPT !.ap.audioContext = TRUE])

ScheduledIds(w) == {w.ap.scheduledSources[i].source :
                      i \in 1..Len(w.ap.scheduledSources)}

\* clearTimeout(this.queueProcessTimeout): the handle names the timer set
\* last; host.timeouts holds the due time of every debounce timer that is
\* set and has neither fired nor been cleared.
clearTimeout(w) ==
  IF w.ap.queueProcessTimeout /\ w.host.timeouts # <<>>
    THEN [w EXCEPT !.host.timeouts = SubSeq(@, 1, Len(@) - 1)]
    ELSE w

clearBuffers(w) ==
  LET stopped == [clearTimeout(w) EXCEPT
                    !.host.sink = {s \in @ : s.id \notin ScheduledIds(w)}]
      emptied == [stopped EXCEPT !.ap.scheduledSources = <<>>,
                                 !.ap.queueProcessTimeout = FALSE,
                                 !.ap.audioBufferQueue = <<>>]
      bumped == resetStreamAnchors(emptied)
  IN [bumped EXCEPT !.ap.nextPlaybackTime = 0,
                    !.ap.lastScheduledServerTime = 0,
                    !.ap.currentSyncErrorMs = 0,
                    !.ap.smoothedSyncErrorMs = 0,
                    !.ap.resyncCount = 0,
                    !.ap.currentPlaybackRate = 100,
                    !.ap.currentCorrectionMethod = "none",
                    !.ap.lastSamplesAdjusted = 0]

\* An AudioBuffer: where it was allocated ("decoder" for the frame a decode
\* delivered, "createBuffer" for one allocated since) and the samples of
\* each channel.  Sample values are in half steps of the smallest difference
\* between two input samples, so that the mean of two input samples is a
\* whole number of them.
bufferLength(buffer) == Len(buffer.channelData[1])

\* copyBuffer: a newly allocated buffer with the same samples.
copyBuffer(w, buffer) ==
  IF ~w.ap.audioContext THEN buffer
  ELSE [origin |-> "createBuffer", channelData |-> buffer.channelData]

\* The interpolated sample taken as a copy of the first of the two samples.
firstOfTwo(a, b) == a

interpolate(a, b) == (a + b) \div 2

\* adjustBufferSamples: insert one sample after the first, or replace the
\* last two samples by one; the interpolated sample is the mean of its
\* neighbours.  The old buffer is read and never written.
adjustBufferSamples(w, buffer, samplesToAdjust) ==
  IF ~w.ap.audioContext \/ samplesToAdjust = 0 \/ bufferLength(buffer) < 2
    THEN copyBuffer(w, buffer)
  ELSE LET len == bufferLength(buffer)
           inserted(oldData) ==
             <<oldData[1], interpolate(oldData[1], oldData[2])>>
               \o SubSeq(oldData, 2, len)
           deleted(oldData) ==
             SubSeq(oldData, 1, len - 2)
               \o <<interpolate(oldData[len - 1], oldData[len])>>
       IN [origin |-> "createBuffer",
           channelData |->
             [ch \in DOMAIN buffer.channelData |->
                IF samplesToAdjust > 0
                  THEN inserted(buffer.channelData[ch])
                  ELSE deleted(buffer.channelData[ch])]]

close(w) ==
  LET c == clearBuffers(w)
      hadDecoder == c.ap.webCodecsDecoder
  IN [c EXCEPT !.ap.audioContext = FALSE,
               !.ap.webCodecsDecoder = FALSE,
               !.ap.webCodecsDecoderReady = IF hadDecoder THEN FALSE ELSE @,
               !.ap.webCodecsFormat = IF hadDecoder THEN NoFormat ELSE @,
               !.ap.useNativeOpus = TRUE]

(***************************************************************************)
(* ProtocolHandler: outbound messages.                                     *)
(***************************************************************************)
sendClientHello(w) == send(w, [type |-> "client/hello"])

sendGoodbye(w, reason) == send(w, [type |-> "client/goodbye", reason |-> reason])

sendTimeSync(w) ==
  send(w, [type |-> "client/time", client_transmitted |-> w.host.now])

sendStateUpdate(w) ==
  LET external == w.ap.useHardwareVolume
      volume == IF external THEN w.host.externalVolume.volume ELSE w.sm.volume
      muted == IF external THEN w.host.externalVolume.muted ELSE w.sm.muted
  IN send(w, [type |-> "client/state", state |-> w.sm.playerState,
              volume |-> volume, muted |-> muted])

(***************************************************************************)
(* ProtocolHandler: inbound text messages.                                 *)
(***************************************************************************)
handleServerHelloTimeFirst(w) ==
  LET s1 == sendTimeSync(w)
      s2 == sendStateUpdate(s1)
      s3 == startInterval(s2, "time")
  IN startInterval(s3, "state")

handleServerHello(w) ==
  LET s1 == sendStateUpdate(w)
      s2 == sendTimeSync(s1)
      s3 == startInterval(s2, "time")
  IN startInterval(s3, "state")

\* `!roles || roles.includes("player")`
ForPlayer(payload) == ~payload.hasRoles \/ "player" \in payload.roles

handleStreamStartAlwaysNew(w, format) ==
  LET s1 == [w EXCEPT !.sm.currentStreamFormat = format]
      s2 == initAudioContext(s1)
      s3 == clearBuffers(resetStreamAnchors(s2))
  IN [s3 EXCEPT !.sm.isPlaying = TRUE]

handleStreamStart(w, format) ==
  LET isFormatUpdate == w.sm.currentStreamFormat # NoFormat
      s1 == [w EXCEPT !.sm.currentStreamFormat = format]
      s2 == initAudioContext(s1)
      s3 == IF ~isFormatUpdate THEN clearBuffers(resetStreamAnchors(s2)) ELSE s2
  IN [s3 EXCEPT !.sm.isPlaying = TRUE]

handleStreamClearAnyRole(w, payload) == resetStreamAnchors(clearBuffers(w))

handleStreamClear(w, payload) ==
  IF ForPlayer(payload) THEN resetStreamAnchors(clearBuffers(w)) ELSE w

handleStreamEndAckFirst(w, payload) ==
  IF ForPlayer(payload)
    THEN LET s0 == sendStateUpdate(w)
             s1 == clearBuffers(s0)
             s2 == [s1 EXCEPT !.sm.currentStreamFormat = NoFormat]
         IN [s2 EXCEPT !.sm.isPlaying = FALSE]
    ELSE w

handleStreamEnd(w, payload) ==
  IF ForPlayer(payload)
    THEN LET s1 == clearBuffers(w)
             s2 == [s1 EXCEPT !.sm.currentStreamFormat = NoFormat]
             s3 == [s2 EXCEPT !.sm.isPlaying = FALSE]
         IN sendStateUpdate(s3)
    ELSE w

\* onVolumeCommand of a host that applies what it is told.
onVolumeCommand(w, volume, muted) ==
  IF w.ap.useHardwareVolume
    THEN [w EXCEPT !.host.externalVolume = [volume |-> volume, muted |-> muted]]
    ELSE w

handleServerCommandAckFirst(w, payload) ==
  IF ~payload.hasPlayer THEN w
  ELSE LET acked == sendStateUpdate(w)
       IN CASE payload.command = "volume" /\ payload.hasValue ->
                 LET s1 == setVolumeField(acked, payload.volume)
                     s2 == updateVolume(s1)
                 IN onVolumeCommand(s2, payload.volume, s2.sm.muted)
            [] payload.command = "mute" /\ payload.hasValue ->
                 LET s1 == setMutedField(acked, payload.mute)
                     s2 == updateVolume(s1)
                 IN onVolumeCommand(s2, s2.sm.volume, payload.mute)
            [] OTHER -> acked

handleServerCommand(w, payload) ==
  IF ~payload.hasPlayer THEN w
  ELSE LET applied ==
             CASE payload.command = "volume" /\ payload.hasValue ->
                    LET s1 == setVolumeField(w, payload.volume)
                        s2 == updateVolume(s1)
                    IN onVolumeCommand(s2, payload.volume, s2.sm.muted)
               [] payload.command = "mute" /\ payload.hasValue ->
                    LET s1 == setMutedField(w, payload.mute)
                        s2 == updateVolume(s1)
                    IN onVolumeCommand(s2, s2.sm.volume, payload.mute)
               [] OTHER -> w
       IN sendStateUpdate(applied)

(***************************************************************************)
(* SendspinPlayer: the local API.                                          *)
(***************************************************************************)
setVolume(w, volume) == sendStateUpdate(updateVolume(setVolumeField(w, volume)))

setMuted(w, muted) == sendStateUpdate(updateVolume(setMutedField(w, muted)))

(***************************************************************************)
(* SendspinTimeFilter.  update() absorbs an NTP measurement; the filter    *)
(* is synchronized from the second absorbed measurement on.                *)
(***************************************************************************)
update(w, measurement, max_error) ==
  [w EXCEPT !.tf.count = Min(@ + 1, 2),
            !.tf.offset = measurement,
            !.tf.error = max_error,
            !.tf.is_synchronized = (w.tf.count + 1 >= 2)]

computeClientTime(tf, serverTime) == serverTime - tf.offset

resetTimeFilter(w) ==
  [w EXCEPT !.tf = [count |-> 0, offset |-> 0, error |-> 0,
                    is_synchronized |-> FALSE]]

\* getRawOutputLatencyUs: base plus output latency the audio context reports.
getRawOutputLatencyUs(w) ==
  IF ~w.ap.audioContext THEN 0 ELSE w.host.outputLatencyUs

handleServerTime(w, payload) ==
  LET T4 == w.host.now
      T1 == payload.client_transmitted
      T2 == payload.server_received
      T3 == payload.server_transmitted
      clockOffset == Quot((T2 - T1) + (T3 - T4), 2)
      outputLatencyUs == IF w.host.useOutputLatencyCompensation
                           THEN getRawOutputLatencyUs(w) ELSE 0
      measurement == clockOffset + outputLatencyUs
      max_error == Quot((T4 - T1) - (T3 - T2), 2)
  IN update(w, measurement, max_error)

\* handleServerMessage: the switch on message.type.
handleServerMessage(w, message) ==
  CASE message.type = "server/hello" -> handleServerHello(w)
    [] message.type = "server/time" -> handleServerTime(w, message.payload)
    [] message.type = "stream/start" -> handleStreamStart(w, message.payload)
    [] message.type = "stream/clear" -> handleStreamClear(w, message.payload)
    [] message.type = "stream/end" -> handleStreamEnd(w, message.payload)
    [] message.type = "server/command" -> handleServerCommand(w, message.payload)
    [] message.type = "server/state" -> w
    [] message.type = "group/update" -> w
    [] OTHER -> w

(***************************************************************************)
(* AudioProcessor: the scheduling pass.                                    *)
(***************************************************************************)
\* `chunk.generation === currentGeneration` (pass filter) and its negation
\* `generation !== this.stateManager.streamGeneration` (after a decode).
AnyGeneration(generation, currentGeneration) == TRUE

SameGeneration(generation, currentGeneration) == generation = currentGeneration

RECURSIVE InsertByServerTime(_, _)
InsertByServerTime(sorted, c) ==
  IF sorted = <<>> THEN <<c>>
  ELSE IF c.serverTime < Head(sorted).serverTime THEN <<c>> \o sorted
  ELSE <<Head(sorted)>> \o InsertByServerTime(Tail(sorted), c)

RECURSIVE SortFrom(_, _)
SortFrom(sorted, rest) ==
  IF rest = <<>> THEN sorted
  ELSE SortFrom(InsertByServerTime(sorted, Head(rest)), Tail(rest))

keepArrivalOrder(queue) == queue

\* Array.prototype.sort((a, b) => a.serverTime - b.serverTime): stable.
sortQueue(queue) == SortFrom(<<>>, queue)

RECURSIVE SelectSeqBy(_, _)
SelectSeqBy(q, g) ==
  IF q = <<>> THEN <<>>
  ELSE IF SameGeneration(Head(q).generation, g)
         THEN <<Head(q)>> \o SelectSeqBy(Tail(q), g)
         ELSE SelectSeqBy(Tail(q), g)

filterQueue(queue, currentGeneration) == SelectSeqBy(queue, currentGeneration)

\* source.stop(stopTime) on every tracked source that ends after stopTime.
cutScheduledSources(w, cutoffTime) ==
  LET stopTime == Max(cutoffTime, w.host.now)
      keep == SelectSeq(w.ap.scheduledSources, LAMBDA e : e.endTime <= stopTime)
      cutIds == {w.ap.scheduledSources[i].source :
                   i \in {j \in 1..Len(w.ap.scheduledSources) :
                            w.ap.scheduledSources[j].endTime > stopTime}}
      sink == {s \in w.host.sink : s.id \notin cutIds}
                \cup {[s EXCEPT !.endTime = stopTime, !.tracked = FALSE] :
                        s \in {x \in w.host.sink :
                                 x.id \in cutIds /\ x.startTime < stopTime}}
  IN [w EXCEPT !.ap.scheduledSources = keep, !.host.sink = sink]

alwaysContiguous(serverGapUs) == TRUE

\* `Math.abs(serverGapSec) < 0.1`: the chunk continues the server timeline.
isContiguous(serverGapUs) == Abs(serverGapUs) < GAP_US

noDeadband(correctionErrorMs, thresholds) == FALSE

\* `Math.abs(correctionErrorMs) < thresholds.deadbandBelowMs` (tier 1).
withinDeadband(correctionErrorMs, thresholds) ==
  Abs(correctionErrorMs) < thresholds.deadbandBelowMs

CorrectionTierWithoutWait(w, c, targetPlaybackTime) ==
  LET ap == w.ap
      thresholds == CORRECTION_THRESHOLDS[ap.correctionMode]
      serverGapUs == c.serverTime - ap.lastScheduledServerTime
      syncErrorMs == ap.nextPlaybackTime - targetPlaybackTime
      smoothed == Quot(SYNC_ERROR_ALPHA_PCT * syncErrorMs
                       + (100 - SYNC_ERROR_ALPHA_PCT) * ap.smoothedSyncErrorMs, 100)
  IN IF ap.nextPlaybackTime = 0 \/ ap.lastScheduledServerTime = 0 THEN "first"
     ELSE IF ~isContiguous(serverGapUs) THEN "gap"
     ELSE IF Abs(smoothed) > thresholds.resyncAboveMs THEN "resync"
     ELSE IF withinDeadband(smoothed, thresholds) THEN "deadband"
     ELSE IF Abs(smoothed) < thresholds.samplesBelowMs THEN "samples"
     ELSE "rate"

\* The branch of the loop body taken for chunk c, and what it decides.
CorrectionTier(w, c, targetPlaybackTime) ==
  LET ap == w.ap
      thresholds == CORRECTION_THRESHOLDS[ap.correctionMode]
      serverGapUs == c.serverTime - ap.lastScheduledServerTime
      syncErrorMs == ap.nextPlaybackTime - targetPlaybackTime
      smoothed == Quot(SYNC_ERROR_ALPHA_PCT * syncErrorMs
                       + (100 - SYNC_ERROR_ALPHA_PCT) * ap.smoothedSyncErrorMs, 100)
  IN IF ap.nextPlaybackTime = 0 \/ ap.lastScheduledServerTime = 0 THEN "first"
     ELSE IF ~isContiguous(serverGapUs) THEN "gap"
     ELSE IF w.tf.error > thresholds.timeFilterMaxErrorMs THEN "wait"
     ELSE IF Abs(smoothed) > thresholds.resyncAboveMs THEN "resync"
     ELSE IF withinDeadband(smoothed, thresholds) THEN "deadband"
     ELSE IF Abs(smoothed) < thresholds.samplesBelowMs THEN "samples"
     ELSE "rate"

ratePercentOfSyncMode(correctionErrorMs, thresholds) ==
  IF correctionErrorMs > 0
    THEN IF Abs(correctionErrorMs) >= 35000 THEN 102
         ELSE IF Abs(correctionErrorMs) >= 8000 THEN 101
         ELSE 100
    ELSE IF Abs(correctionErrorMs) >= 35000 THEN 98
         ELSE IF Abs(correctionErrorMs) >= 8000 THEN 99
         ELSE 100

\* Tier 3: the playback rate in per cent.
ratePercent(correctionErrorMs, thresholds) ==
  IF correctionErrorMs > 0
    THEN IF Abs(correctionErrorMs) >= thresholds.rate2AboveMs THEN 102
         ELSE IF Abs(correctionErrorMs) >= thresholds.rate1AboveMs THEN 101
         ELSE 100
    ELSE IF Abs(correctionErrorMs) >= thresholds.rate2AboveMs THEN 98
         ELSE IF Abs(correctionErrorMs) >= thresholds.rate1AboveMs THEN 99
         ELSE 100

\* `playbackTime < audioContextTime`: the chunk arrived too late.
neverLate(playbackTime, audioContextTime) == FALSE

isLate(playbackTime, audioContextTime) == playbackTime < audioContextTime

\* `playbackTime + actualDuration`, actualDuration = duration / playbackRate.
sourceStartTime(playbackTime, duration, playbackRate) == playbackTime - 1

sourceEndTime(playbackTime, duration, playbackRate) ==
  playbackTime + (duration * 100) \div playbackRate

\* One iteration of the while loop of processAudioQueue, for the chunk at
\* the head of the queue.
scheduleChunk(w, audioContextTime, nowUs) ==
  LET c == Head(w.ap.audioBufferQueue)
      w0 == [w EXCEPT !.ap.audioBufferQueue = Tail(@)]
      ap == w0.ap
      thresholds == CORRECTION_THRESHOLDS[ap.correctionMode]
      chunkClientTimeUs == computeClientTime(w0.tf, c.serverTime)
      deltaUs == chunkClientTimeUs - nowUs
      targetPlaybackTime == audioContextTime + deltaUs + BUFFER_US
                            + ap.syncDelayMs * 1000
      tier == CorrectionTier(w0, c, targetPlaybackTime)
      syncErrorMs == ap.nextPlaybackTime - targetPlaybackTime
      smoothed == Quot(SYNC_ERROR_ALPHA_PCT * syncErrorMs
                       + (100 - SYNC_ERROR_ALPHA_PCT) * ap.smoothedSyncErrorMs, 100)
      contiguous == tier \in {"wait", "resync", "deadband", "samples", "rate"}
      \* error bookkeeping of the contiguous branch
      w1 == IF contiguous
              THEN [w0 EXCEPT !.ap.currentSyncErrorMs = syncErrorMs,
                              !.ap.smoothedSyncErrorMs = smoothed]
              ELSE w0
      \* resync bookkeeping (tier 4 and gap)
      w2 == CASE tier = "resync" ->
                   cutScheduledSources(
                     [w1 EXCEPT !.ap.resyncCount = @ + 1,
                                !.ap.smoothedSyncErrorMs = 0],
                     targetPlaybackTime)
              [] tier = "gap" ->
                   cutScheduledSources([w1 EXCEPT !.ap.resyncCount = @ + 1],
                                       targetPlaybackTime)
              [] OTHER -> w1
      playbackTime == IF tier \in {"first", "gap", "resync"}
                        THEN targetPlaybackTime ELSE ap.nextPlaybackTime
      playbackRate == IF tier = "rate" THEN ratePercent(smoothed, thresholds)
                      ELSE 100
      samplesToAdjust == IF tier = "samples"
                           THEN (IF smoothed > 0 THEN -1 ELSE 1) ELSE 0
      method == CASE tier = "first" -> ap.currentCorrectionMethod
                  [] tier = "gap" -> "resync"
                  [] tier = "wait" -> "waiting-for-time-sync"
                  [] tier = "resync" -> "resync"
                  [] tier = "deadband" -> "none"
                  [] tier = "samples" -> "samples"
                  [] tier = "rate" -> IF playbackRate = 100 THEN "none" ELSE "rate"
      \* adjustBufferSamples / copyBuffer: the buffer the source will play
      duration == IF c.duration >= 2 * SamplePeriodUs
                    THEN c.duration + samplesToAdjust * SamplePeriodUs
                    ELSE c.duration
      w3 == [w2 EXCEPT !.ap.currentCorrectionMethod = method,
                       !.ap.lastSamplesAdjusted =
                          IF tier = "first" THEN @ ELSE samplesToAdjust,
                       !.ap.currentPlaybackRate = playbackRate]
      late == isLate(playbackTime, audioContextTime)
      endTime == sourceEndTime(playbackTime, duration, playbackRate)
      id == w3.host.sourcesCreated + 1
      w4 == IF late
              THEN [w3 EXCEPT !.ap.nextPlaybackTime = 0,
                              !.ap.lastScheduledServerTime = 0]
              ELSE [w3 EXCEPT
                      !.host.sourcesCreated = id,
                      !.host.sink = @ \cup
                         {[id |-> id, startTime |-> playbackTime,
                           endTime |-> endTime,
                           playbackRate |-> playbackRate,
                           serverTime |-> c.serverTime,
                           generation |-> c.generation,
                           tracked |-> TRUE]},
                      !.ap.nextPlaybackTime = endTime,
                      !.ap.lastScheduledServerTime = c.serverTime + duration,
                      !.ap.scheduledSources =
                         Append(@, [source |-> id, startTime |-> playbackTime,
                                    endTime |-> endTime])]
  IN [w4 EXCEPT !.pass.frames =
        Append(@, [serverTime |-> c.serverTime,
                   generation |-> c.generation,
                   captured |-> c.captured,
                   delivered |-> c.delivered,
                   tier |-> tier,
                   target |-> targetPlaybackTime,
                   playbackTime |-> playbackTime,
                   playbackRate |-> playbackRate,
                   samples |-> duration - c.duration,
                   late |-> late,
                   source |-> IF late THEN 0 ELSE id,
                   duration |-> c.duration,
                   mode |-> ap.correctionMode,
                   method |-> method,
                   correctionError |-> IF contiguous THEN smoothed ELSE 0,
                   timeFilterError |-> w0.tf.error,
                   nextBefore |-> ap.nextPlaybackTime,
                   lastBefore |-> ap.lastScheduledServerTime,
                   resyncBefore |-> ap.resyncCount,
                   created |-> w0.host.sourcesCreated,
                   cut |-> Len(w1.ap.scheduledSources)
                             - Len(w2.ap.scheduledSources),
                   nextAfter |-> w4.ap.nextPlaybackTime,
                   lastAfter |-> w4.ap.lastScheduledServerTime,
                   resyncAfter |-> w4.ap.resyncCount,
                   smoothedAfter |-> w4.ap.smoothedSyncErrorMs])]

RECURSIVE scheduleAll(_, _, _)
scheduleAll(w, audioContextTime, nowUs) ==
  IF w.ap.audioBufferQueue = <<>> THEN w
  ELSE scheduleAll(scheduleChunk(w, audioContextTime, nowUs),
                   audioContextTime, nowUs)

processWithoutSyncCheck(w) ==
  IF ~w.ap.audioContext THEN w
  ELSE LET currentGeneration == w.sm.streamGeneration
           queued == w.ap.audioBufferQueue
           w1 == [w EXCEPT !.ap.audioBufferQueue =
                             sortQueue(filterQueue(queued, currentGeneration)),
                           !.pass = [generation |-> currentGeneration,
                                     queued |-> queued,
                                     audioContextTime |-> w.host.now,
                                     frames |-> <<>>]]
       IN scheduleAll(w1, w.host.now, w.host.now)

processAudioQueue(w) ==
  IF ~w.ap.audioContext THEN w
  ELSE LET currentGeneration == w.sm.streamGeneration
           queued == w.ap.audioBufferQueue
           filtered == filterQueue(queued, currentGeneration)
           sorted == sortQueue(filtered)
           w1 == [w EXCEPT !.ap.audioBufferQueue = sorted,
                           !.pass = [generation |-> currentGeneration,
                                     queued |-> queued,
                                     audioContextTime |-> w.host.now,
                                     frames |-> <<>>]]
       IN IF ~w.tf.is_synchronized THEN w1
          ELSE scheduleAll(w1, w.host.now, w.host.now)

(***************************************************************************)
(* AudioProcessor: the decode front-end.                                   *)
(***************************************************************************)
\* The debounce: clearTimeout of a pending timer, then setTimeout(50 ms).
armWithoutClear(w) ==
  [w EXCEPT !.ap.queueProcessTimeout = TRUE,
            !.host.timeouts = Append(@, w.host.now + DEBOUNCE_US)]

armDebounce(w) ==
  [clearTimeout(w) EXCEPT
     !.ap.queueProcessTimeout = TRUE,
     !.host.timeouts = Append(clearTimeout(w).host.timeouts,
                              w.host.now + DEBOUNCE_US)]

\* handleBinaryMessage after `await decodeAudioData`: the generation check,
\* the push with the generation captured before the decode, the debounce.
enqueueDecoded(w, d) ==
  IF ~SameGeneration(d.generation, w.sm.streamGeneration) THEN w
  ELSE armDebounce([w EXCEPT !.ap.audioBufferQueue =
                      Append(@, [serverTime |-> d.serverTime,
                                 generation |-> d.generation,
                                 captured |-> d.generation,
                                 delivered |-> d.delivered,
                                 duration |-> d.duration])])

\* The output callback of the native Opus decoder.
handleNativeOpusOutput(w, d) ==
  IF ~w.ap.audioContext \/ w.ap.webCodecsFormat = NoFormat THEN w
  ELSE armDebounce([w EXCEPT !.ap.audioBufferQueue =
                      Append(@, [serverTime |-> d.serverTime,
                                 generation |-> w.sm.streamGeneration,
                                 captured |-> d.generation,
                                 delivered |-> d.delivered,
                                 duration |-> d.duration])])

\* createWebCodecsDecoder that leaves useNativeOpus set when it fails.
initKeepsNativeFlag(w, format) ==
  IF w.ap.webCodecsDecoderReady THEN w
  ELSE IF w.host.nativeOpus
    THEN [w EXCEPT !.ap.webCodecsDecoderReady = TRUE,
                   !.ap.webCodecsDecoder = TRUE,
                   !.ap.webCodecsFormat = format]
    ELSE [w EXCEPT !.ap.webCodecsDecoderReady = TRUE]

\* initWebCodecsDecoder / createWebCodecsDecoder: runs once, the promise is kept.
initWebCodecsDecoder(w, format) ==
  IF w.ap.webCodecsDecoderReady THEN w
  ELSE IF w.host.nativeOpus
    THEN [w EXCEPT !.ap.webCodecsDecoderReady = TRUE,
                   !.ap.webCodecsDecoder = TRUE,
                   !.ap.webCodecsFormat = format]
    ELSE [w EXCEPT !.ap.webCodecsDecoderReady = TRUE,
                   !.ap.useNativeOpus = FALSE]

\* Where handleBinaryMessage sends a chunk: "none" (dropped before decode),
\* "pcm" (decoded within the handler), "await" or "native".
DecodePath(w, format) ==
  IF format \in {NoFormat, Undefined} \/ ~w.ap.audioContext THEN "none"
  ELSE IF format = "opus" /\ w.ap.useNativeOpus /\ w.ap.webCodecsDecoder
    THEN "native"
  ELSE IF format = "pcm" THEN "pcm"
  ELSE "await"

\* handleMessage on a frame that is not well formed.  The result is the
\* world the handler leaves and whether it left by an uncaught error:
\*   "invalid-json"             JSON.parse throws;
\*   "stream/start-no-player"   the format is assigned `undefined`, then
\*                              reading `.codec` of it throws;
\*   "stream/clear-no-payload"  reading `.roles` of undefined throws;
\*   "stream/end-no-payload"    `payload?.roles` is undefined: handled as a
\*                              stream/end for the player;
\*   "short-binary"             first byte 4, fewer than 9 bytes: past the
\*                              format and context checks, the DataView
\*                              constructor throws in the async handler.
handleMalformedMessage(w, malformation) ==
  CASE malformation = "invalid-json" -> [w |-> w, threw |-> TRUE]
    [] malformation = "stream/start-no-player" ->
         [w |-> [w EXCEPT !.sm.currentStreamFormat = Undefined],
          threw |-> TRUE]
    [] malformation = "stream/clear-no-payload" -> [w |-> w, threw |-> TRUE]
    [] malformation = "stream/end-no-payload" ->
         [w |-> handleStreamEnd(w, [hasRoles |-> FALSE, roles |-> {}]),
          threw |-> FALSE]
    [] malformation = "short-binary" ->
         [w |-> w,
          threw |-> /\ w.sm.currentStreamFormat \notin {NoFormat, Undefined}
                    /\ w.ap.audioContext]

(***************************************************************************)
(* Initial state: a constructed SendspinPlayer that has not connected.     *)
(***************************************************************************)
EmptyPass == [generation |-> 0, queued |-> <<>>, audioContextTime |-> 0,
              frames |-> <<>>]

Constructed(hardwareVolume, nativeOpus, correctionMode) ==
  [sm |-> [volume |-> 100, muted |-> FALSE,
           playerState |-> "synchronized", isPlaying |-> FALSE,
           currentStreamFormat |-> NoFormat, streamGeneration |-> 0,
           timeSyncInterval |-> 0, stateUpdateInterval |-> 0,
           serverState |-> EmptyObject, groupState |-> EmptyObject],
   ap |-> [audioContext |-> FALSE, gain |-> 100,
           audioBufferQueue |-> <<>>, scheduledSources |-> <<>>,
           queueProcessTimeout |-> FALSE,
           nextPlaybackTime |-> 0, lastScheduledServerTime |-> 0,
           currentSyncErrorMs |-> 0, smoothedSyncErrorMs |-> 0,
           resyncCount |-> 0, currentPlaybackRate |-> 100,
           currentCorrectionMethod |-> "none",
           lastSamplesAdjusted |-> 0,
           syncDelayMs |-> 0, correctionMode |-> correctionMode,
           useHardwareVolume |-> hardwareVolume,
           useNativeOpus |-> TRUE, webCodecsDecoder |-> FALSE,
           webCodecsDecoderReady |-> FALSE,
           webCodecsFormat |-> NoFormat],
   tf |-> [count |-> 0, offset |-> 0, error |-> 0, is_synchronized |-> FALSE],
   ws |-> [open |-> FALSE, sent |-> <<>>],
   host |-> [now |-> 0, ticks |-> 0, sink |-> {}, sourcesCreated |-> 0,
             chunksReceived |-> 0, timersCreated |-> 0, intervals |-> {},
             timeouts |-> <<>>,
             outputLatencyUs |-> 0,
             useOutputLatencyCompensation |-> FALSE,
             externalVolume |-> [volume |-> 100, muted |-> FALSE],
             nativeOpus |-> nativeOpus],
   pass |-> EmptyPass]

\* The variables hold world w and nothing is in flight.
StartsAt(w, event) ==
  /\ stateManager = w.sm
  /\ audioProcessor = w.ap
  /\ timeFilter = w.tf
  /\ wsManager = [w.ws EXCEPT !.sent = <<>>]
  /\ host = w.host
  /\ lastPass = EmptyPass
  /\ decoding = <<>>
  /\ lastEvent = [type |-> event]

(***************************************************************************)
(* Inputs.                                                                 *)
(***************************************************************************)
RolesPayloads == {[hasRoles |-> FALSE, roles |-> {}],
                  [hasRoles |-> TRUE, roles |-> {"player"}],
                  [hasRoles |-> TRUE, roles |-> {"metadata"}]}

VolumeInputs == {-5, 30, 150}

\* Every value of the type `number` a caller or a message can carry:
\* below, inside and above the range, and NaN.
NumberInputs == VolumeInputs \cup {NaN}

VolumeCommand(v) ==
  [hasPlayer |-> TRUE, command |-> "volume", hasValue |-> TRUE,
   volume |-> v, mute |-> FALSE]

CommandPayloads ==
  {[hasPlayer |-> FALSE, command |-> "none", hasValue |-> FALSE,
    volume |-> 0, mute |-> FALSE]}
  \cup {VolumeCommand(v) : v \in VolumeInputs}
  \cup {[hasPlayer |-> TRUE, command |-> "mute", hasValue |-> TRUE,
         volume |-> 0, mute |-> m] : m \in BOOLEAN}
  \cup {[hasPlayer |-> TRUE, command |-> "volume", hasValue |-> FALSE,
         volume |-> 0, mute |-> FALSE]}

\* The objects over a set of keys whose values come from a set of values.
ObjectsOver(keys, values) ==
  UNION {[present -> values] : present \in SUBSET keys}

LeafValues == {Null, Leaf(1), Array(1)}

\* Diffs without a nested object, and diffs that may nest one level.
LeafDiffs == ObjectsOver({"metadata", "player"}, LeafValues)

NestedValues ==
  {Object(fields) : fields \in ObjectsOver({"title"}, {Null, Leaf(1), Leaf(2)})}

ServerStatePayloads ==
  ObjectsOver({"metadata", "player"}, LeafValues \cup NestedValues)

GroupUpdatePayloads == ObjectsOver({"playback_state"}, {Null, Leaf(1), Leaf(2)})

ChunkDurationUs == 100 * 1000
FirstServerTimeUs == 2000 * 1000

(***************************************************************************)
(* Actions: one per handler of the event loop.                             *)
(***************************************************************************)
\* WebSocket open: onOpen sends client/hello.
Connect ==
  /\ ~wsManager.open
  /\ Commit(sendClientHello([World EXCEPT !.ws.open = TRUE]))
  /\ lastEvent' = [type |-> "open"]
  /\ UNCHANGED decoding

\* The peer or the network closes the channel: onClose only logs.
PeerClose ==
  /\ wsManager.open
  /\ Commit([World EXCEPT !.ws.open = FALSE])
  /\ lastEvent' = [type |-> "close"]
  /\ UNCHANGED decoding

ServerHello ==
  /\ wsManager.open
  /\ host.timersCreated + 2 <= MaxTimerId
  /\ Commit(handleServerHello(World))
  /\ lastEvent' = [type |-> "server/hello"]
  /\ UNCHANGED decoding

ServerTime(offset, err) ==
  /\ wsManager.open
  /\ Commit(handleServerTime(World,
              [client_transmitted |-> host.now - 2 * err,
               server_received |-> host.now - err + offset,
               server_transmitted |-> host.now - err + offset]))
  /\ lastEvent' = [type |-> "server/time", offset |-> offset, error |-> err,
                   client_transmitted |-> host.now - 2 * err]
  /\ UNCHANGED decoding

\* A server/time reply that echoes the given client_transmitted; the server
\* answered at once and its clock is `offset` ahead of the client's.
ServerTimeFrom(client_transmitted, offset) ==
  /\ wsManager.open
  /\ Commit(handleServerTime(World,
              [client_transmitted |-> client_transmitted,
               server_received |-> client_transmitted + offset,
               server_transmitted |-> client_transmitted + offset]))
  /\ lastEvent' = [type |-> "server/time", offset |-> offset,
                   error |-> Quot(host.now - client_transmitted, 2),
                   client_transmitted |-> client_transmitted]
  /\ UNCHANGED decoding

StreamStart(format) ==
  /\ wsManager.open
  /\ stateManager.streamGeneration + 2 <= MaxGeneration
  /\ Commit(handleStreamStart(World, format))
  /\ lastEvent' = [type |-> "stream/start", format |-> format,
                   isFormatUpdate |-> stateManager.currentStreamFormat # NoFormat,
                   queued |-> Len(audioProcessor.audioBufferQueue),
                   scheduled |-> Len(audioProcessor.scheduledSources)]
  /\ UNCHANGED decoding

StreamClear(payload) ==
  /\ wsManager.open
  /\ stateManager.streamGeneration + 2 <= MaxGeneration
  /\ Commit(handleStreamClear(World, payload))
  /\ lastEvent' = [type |-> "stream/clear", payload |-> payload,
                   queued |-> Len(audioProcessor.audioBufferQueue),
                   scheduled |-> Len(audioProcessor.scheduledSources)]
  /\ UNCHANGED decoding

StreamEnd(payload) ==
  /\ wsManager.open
  /\ stateManager.streamGeneration + 1 <= MaxGeneration
  /\ Commit(handleStreamEnd(World, payload))
  /\ lastEvent' = [type |-> "stream/end", payload |-> payload,
                   queued |-> Len(audioProcessor.audioBufferQueue),
                   scheduled |-> Len(audioProcessor.scheduledSources)]
  /\ UNCHANGED decoding

ServerCommand(payload) ==
  /\ wsManager.open
  /\ Commit(handleServerCommand(World, payload))
  /\ lastEvent' = [type |-> "server/command", payload |-> payload]
  /\ UNCHANGED decoding

\* A server/state or a group/update message arrives.
ServerState(payload) ==
  /\ wsManager.open
  /\ Commit(handleServerMessage(World, [type |-> "server/state",
                                        payload |-> payload]))
  /\ lastEvent' = [type |-> "server/state", payload |-> payload]
  /\ UNCHANGED decoding

GroupUpdate(payload) ==
  /\ wsManager.open
  /\ Commit(handleServerMessage(World, [type |-> "group/update",
                                        payload |-> payload]))
  /\ lastEvent' = [type |-> "group/update", payload |-> payload]
  /\ UNCHANGED decoding

\* A caller of the State Store merges a delta into a cached state.
UpdateServerState(delta) ==
  /\ Commit(updateServerState(World, delta))
  /\ lastEvent' = [type |-> "updateServerState", update |-> delta]
  /\ UNCHANGED decoding

UpdateGroupState(delta) ==
  /\ Commit(updateGroupState(World, delta))
  /\ lastEvent' = [type |-> "updateGroupState", update |-> delta]
  /\ UNCHANGED decoding

Malformations ==
  {"invalid-json", "stream/start-no-player", "stream/clear-no-payload",
   "stream/end-no-payload", "short-binary"}

\* A frame that is not well formed arrives.
MalformedMessage(malformation) ==
  /\ wsManager.open
  /\ stateManager.streamGeneration + 1 <= MaxGeneration
  /\ LET handled == handleMalformedMessage(World, malformation)
     IN /\ Commit(handled.w)
        /\ lastEvent' = [type |-> "malformed", malformation |-> malformation,
                         threw |-> handled.threw]
  /\ UNCHANGED decoding

\* handleBinaryMessage up to its first suspension that another handler can
\* interleave with.  A PCM chunk is decoded and enqueued within the handler.
\* `delivered` is the stream generation at the time the chunk's frame
\* reached handleMessage; the handler captures the generation it runs in.
handleBinaryMessage(w, serverTime, delivered) ==
  LET format == w.sm.currentStreamFormat
      generation == w.sm.streamGeneration
      w1 == IF format = "opus" /\ w.ap.useNativeOpus /\ w.ap.audioContext
              THEN initWebCodecsDecoder(w, format) ELSE w
      path == DecodePath(w1, format)
      d == [path |-> path, serverTime |-> serverTime,
            generation |-> generation, delivered |-> delivered,
            duration |-> ChunkDurationUs]
  IN [w |-> IF path = "pcm" THEN enqueueDecoded(w1, d) ELSE w1,
      pending |-> IF path \in {"await", "native"} THEN <<d>> ELSE <<>>,
      path |-> path]

\* A binary frame delivered as an ArrayBuffer.
BinaryMessage(serverTime) ==
  /\ wsManager.open
  /\ host.chunksReceived < MaxChunks
  /\ LET handled ==
           handleBinaryMessage([World EXCEPT !.host.chunksReceived = @ + 1],
                               serverTime, stateManager.streamGeneration)
     IN /\ Commit(handled.w)
        /\ decoding' = decoding \o handled.pending
        /\ lastEvent' = [type |-> "binary", path |-> handled.path,
                         serverTime |-> serverTime]

RemoveAt(seq, i) == SubSeq(seq, 1, i - 1) \o SubSeq(seq, i + 1, Len(seq))

\* An awaited decode (FLAC, software Opus) resolves; decodes may resolve in
\* any order.
DecodeComplete(i) ==
  /\ i \in 1..Len(decoding)
  /\ decoding[i].path = "await"
  /\ Commit(enqueueDecoded(World, decoding[i]))
  /\ decoding' = RemoveAt(decoding, i)
  /\ lastEvent' = [type |-> "decoded", path |-> "await",
                   serverTime |-> decoding[i].serverTime]

\* The native decoder delivers its oldest pending frame.
NativeOutput(i) ==
  /\ i \in 1..Len(decoding)
  /\ decoding[i].path = "native"
  /\ \A j \in 1..(i - 1) : decoding[j].path # "native"
  /\ Commit(handleNativeOpusOutput(World, decoding[i]))
  /\ decoding' = RemoveAt(decoding, i)
  /\ lastEvent' = [type |-> "decoded", path |-> "native",
                   serverTime |-> decoding[i].serverTime]

\* A binary frame delivered as a Blob: handleMessage starts the conversion
\* to an ArrayBuffer and returns.
BlobMessage(serverTime) ==
  /\ wsManager.open
  /\ host.chunksReceived < MaxChunks
  /\ Commit([World EXCEPT !.host.chunksReceived = @ + 1])
  /\ decoding' = Append(decoding,
                        [path |-> "blob", serverTime |-> serverTime,
                         generation |-> stateManager.streamGeneration,
                         delivered |-> stateManager.streamGeneration,
                         duration |-> ChunkDurationUs])
  /\ lastEvent' = [type |-> "binary", path |-> "blob",
                   serverTime |-> serverTime]

\* A Blob conversion resolves: handleBinaryMessage runs on the ArrayBuffer.
BlobConverted(i) ==
  /\ i \in 1..Len(decoding)
  /\ decoding[i].path = "blob"
  /\ LET handled == handleBinaryMessage(World, decoding[i].serverTime,
                                        decoding[i].delivered)
     IN /\ Commit(handled.w)
        /\ decoding' = RemoveAt(decoding, i) \o handled.pending
        /\ lastEvent' = [type |-> "converted", path |-> handled.path,
                         serverTime |-> decoding[i].serverTime]

\* The debounce timer fires.
DebounceFire ==
  /\ host.timeouts # <<>>
  /\ Commit([processAudioQueue([World EXCEPT !.host.timeouts = Tail(@)])
               EXCEPT !.ap.queueProcessTimeout = FALSE])
  /\ lastEvent' = [type |-> "pass"]
  /\ UNCHANGED decoding

TimeSyncTimer ==
  /\ \E t \in host.intervals : t.kind = "time"
  /\ Commit(sendTimeSync(World))
  /\ lastEvent' = [type |-> "timer", kind |-> "time"]
  /\ UNCHANGED decoding

StateUpdateTimer ==
  /\ \E t \in host.intervals : t.kind = "state"
  /\ Commit(sendStateUpdate(World))
  /\ lastEvent' = [type |-> "timer", kind |-> "state"]
  /\ UNCHANGED decoding

SetVolume(volume) ==
  /\ Commit(setVolume(World, volume))
  /\ lastEvent' = [type |-> "setVolume", volume |-> volume]
  /\ UNCHANGED decoding

SetMuted(muted) ==
  /\ Commit(setMuted(World, muted))
  /\ lastEvent' = [type |-> "setMuted", muted |-> muted]
  /\ UNCHANGED decoding

\* SendspinPlayer.disconnect: intervals, channel, audio, filter, state.
GoodbyeReasons == {"another_server", "shutdown", "restart", "user_request"}

disconnectCloseFirst(w, reason) ==
  LET s1 == clearAllIntervals(w)
      s2 == [s1 EXCEPT !.ws.open = FALSE]
      s3 == IF s2.ws.open THEN sendGoodbye(s2, reason) ELSE s2
      s4 == close(s3)
      s5 == resetTimeFilter(s4)
  IN reset(s5)

disconnect(w, reason) ==
  LET s0 == IF w.ws.open THEN sendGoodbye(w, reason) ELSE w
      s1 == clearAllIntervals(s0)
      s2 == [s1 EXCEPT !.ws.open = FALSE]
      s3 == close(s2)
      s4 == resetTimeFilter(s3)
  IN reset(s4)

Disconnect(reason) ==
  /\ stateManager.streamGeneration + 1 <= MaxGeneration
  /\ Commit(disconnect(World, reason))
  /\ decoding' = SelectSeq(decoding, LAMBDA d : d.path # "native")
  /\ lastEvent' = [type |-> "disconnect", reason |-> reason]

\* AudioProcessor.setSyncDelay: the running anchor moves with the delay.
setSyncDelayOnly(w, delayMs) == [w EXCEPT !.ap.syncDelayMs = delayMs]

setSyncDelay(w, delayMs) ==
  LET deltaMs == delayMs - w.ap.syncDelayMs
      s1 == [w EXCEPT !.ap.syncDelayMs = delayMs]
  IN IF s1.ap.nextPlaybackTime > 0
       THEN [s1 EXCEPT !.ap.nextPlaybackTime = @ + deltaMs * 1000]
       ELSE s1

SetSyncDelay(delayMs) ==
  /\ delayMs # audioProcessor.syncDelayMs
  /\ Commit(setSyncDelay(World, delayMs))
  /\ lastEvent' = [type |-> "setSyncDelay", delayMs |-> delayMs]
  /\ UNCHANGED decoding

\* The clocks (performance.now and the audio context's currentTime) advance.
TickUs == 1250 * 1000

Tick ==
  /\ host.ticks < MaxTicks
  /\ Commit([World EXCEPT !.host.now = @ + TickUs, !.host.ticks = @ + 1])
  /\ lastEvent' = [type |-> "tick"]
  /\ UNCHANGED decoding

\* source.onended: the source has played out (or was stopped); its entry, if
\* still tracked, leaves scheduledSources.
onended(w, id) ==
  [w EXCEPT !.host.sink = {s \in @ : s.id # id},
            !.ap.scheduledSources = SelectSeq(@, LAMBDA e : e.source # id)]

SourceEnded(id) ==
  /\ \E s \in host.sink : s.id = id /\ s.endTime <= host.now
  /\ Commit(onended(World, id))
  /\ lastEvent' = [type |-> "ended", source |-> id]
  /\ UNCHANGED decoding

(***************************************************************************)
(* Spec: the control plane of a session, from a freshly constructed        *)
(* player: channel, handshake, periodic timers, volume and mute.           *)
(***************************************************************************)
Init == \E hardwareVolume \in BOOLEAN :
          StartsAt(Constructed(hardwareVolume, TRUE, "sync"), "constructed")

Next ==
  \/ Connect
  \/ PeerClose
  \/ \E reason \in GoodbyeReasons : Disconnect(reason)
  \/ ServerHello
  \/ StreamStart("pcm")
  \/ \E payload \in CommandPayloads : ServerCommand(payload)
  \/ \E volume \in VolumeInputs : SetVolume(volume)
  \/ \E muted \in BOOLEAN : SetMuted(muted)
  \/ TimeSyncTimer
  \/ StateUpdateTimer

Spec == Init /\ [][Next]_vars

(***************************************************************************)
(* SpecVolume: the volume and mute writes of a session before any stream   *)
(* has started, with every kind of number as input.                        *)
(***************************************************************************)
NextVolume ==
  \/ Connect
  \/ PeerClose
  \/ ServerHello
  \/ \E v \in NumberInputs : ServerCommand(VolumeCommand(v))
  \/ \E volume \in NumberInputs : SetVolume(volume)
  \/ \E muted \in BOOLEAN : SetMuted(muted)
  \/ StateUpdateTimer

SpecVolume == Init /\ [][NextVolume]_vars

(***************************************************************************)
(* SpecStream: the stream lifecycle and the decode paths, from a player    *)
(* that has connected and completed the handshake.                         *)
(***************************************************************************)
Handshaken(w) ==
  handleServerHello(sendClientHello([w EXCEPT !.ws.open = TRUE]))

InitStream == \E nativeOpus \in BOOLEAN :
                StartsAt(Handshaken(Constructed(FALSE, nativeOpus, "sync")),
                         "server/hello")

NextStream ==
  \/ ServerTime(0, 1000)
  \/ \E format \in Codecs : StreamStart(format)
  \/ \E payload \in RolesPayloads : StreamClear(payload)
  \/ \E payload \in RolesPayloads : StreamEnd(payload)
  \/ BinaryMessage(FirstServerTimeUs)
  \/ \E i \in 1..MaxChunks : DecodeComplete(i)
  \/ \E i \in 1..MaxChunks : NativeOutput(i)
  \/ DebounceFire
  \/ Disconnect("shutdown")
  \/ Connect

SpecStream == InitStream /\ [][NextStream]_vars

(***************************************************************************)
(* SpecMalformed: a connected player that receives frames that are not     *)
(* well formed between the well-formed frames of a PCM stream.             *)
(***************************************************************************)
NextMalformed ==
  \/ \E malformation \in Malformations : MalformedMessage(malformation)
  \/ ServerTime(0, 1000)
  \/ StreamStart("pcm")
  \/ BinaryMessage(FirstServerTimeUs)
  \/ DebounceFire

SpecMalformed == InitStream /\ [][NextMalformed]_vars

(***************************************************************************)
(* SpecState: the cached server and group state of a connected player: the *)
(* messages that carry deltas, and the merge methods of the State Store.   *)
(***************************************************************************)
InitState ==
  StartsAt(Handshaken(Constructed(FALSE, TRUE, "sync")), "server/hello")

NextState ==
  \/ \E payload \in ServerStatePayloads : ServerState(payload)
  \/ \E payload \in GroupUpdatePayloads : GroupUpdate(payload)
  \/ \E delta \in ServerStatePayloads : UpdateServerState(delta)
  \/ \E delta \in GroupUpdatePayloads : UpdateGroupState(delta)

SpecState == InitState /\ [][NextState]_vars


(***************************************************************************)
(* SpecScheduler: scheduling passes of a PCM stream, from a player that    *)
(* has synchronized its clock and received stream/start.                   *)
(***************************************************************************)
Streaming(w) ==
  handleStreamStart(
    handleServerTime(
      handleServerTime(w, [client_transmitted |-> w.host.now,
                           server_received |-> w.host.now,
                           server_transmitted |-> w.host.now]),
      [client_transmitted |-> w.host.now, server_received |-> w.host.now,
       server_transmitted |-> w.host.now]),
    "pcm")

InitScheduler ==
  StartsAt(Streaming(Handshaken(Constructed(FALSE, TRUE, "sync"))),
           "stream/start")

SchedulerServerTimes ==
  {FirstServerTimeUs + k * ChunkDurationUs : k \in 0..2}

SchedulerOffsets == {0, 12 * ChunkDurationUs}
SchedulerErrors == {1000, 20000}
SyncDelays == {0, -1200}

NextScheduler ==
  \/ \E serverTime \in SchedulerServerTimes : BinaryMessage(serverTime)
  \/ DebounceFire
  \/ \E offset \in SchedulerOffsets, err \in SchedulerErrors :
       ServerTime(offset, err)
  \/ \E delayMs \in SyncDelays : SetSyncDelay(delayMs)
  \/ \E payload \in RolesPayloads : StreamClear(payload)
  \/ Tick
  \/ \E id \in 1..MaxChunks : SourceEnded(id)

SpecScheduler == InitScheduler /\ [][NextScheduler]_vars

(***************************************************************************)
(* SpecInOrder: the same streaming player receiving the chunks of a fresh  *)
(* stream in order, each beginning where the previous one ends, while the  *)
(* clocks advance and the filter re-measures the same offset.              *)
(***************************************************************************)
NextInOrder ==
  \/ BinaryMessage(FirstServerTimeUs + host.chunksReceived * ChunkDurationUs)
  \/ DebounceFire
  \/ \E err \in SchedulerErrors : ServerTime(0, err)
  \/ Tick

SpecInOrder == InitScheduler /\ [][NextInOrder]_vars

(***************************************************************************)
(* SpecSyncDelay: the in-order stream, with the sync delay changed at run  *)
(* time between a smaller and a larger value.                              *)
(***************************************************************************)
NextSyncDelay ==
  \/ NextInOrder
  \/ \E delayMs \in SyncDelays : SetSyncDelay(delayMs)

SpecSyncDelay == InitScheduler /\ [][NextSyncDelay]_vars

(***************************************************************************)
(* SpecRace: chunks on every decode path, delivered as ArrayBuffer or as   *)
(* Blob, racing with stream/clear and stream/end on a running stream.      *)
(***************************************************************************)
InitRace ==
  \E nativeOpus \in BOOLEAN : \E format \in Codecs :
    StartsAt(handleStreamStart(
               Streaming(Handshaken(Constructed(FALSE, nativeOpus, "sync"))),
               format),
             "stream/start")

NextRace ==
  \/ \E payload \in RolesPayloads : StreamClear(payload)
  \/ \E payload \in RolesPayloads : StreamEnd(payload)
  \/ BinaryMessage(FirstServerTimeUs)
  \/ BlobMessage(FirstServerTimeUs)
  \/ \E i \in 1..MaxChunks : BlobConverted(i)
  \/ \E i \in 1..MaxChunks : DecodeComplete(i)
  \/ \E i \in 1..MaxChunks : NativeOutput(i)
  \/ DebounceFire

SpecRace == InitRace /\ [][NextRace]_vars

(***************************************************************************)
(* SpecTiers: a contiguous stream in the default mode while the measured   *)
(* clock offset steps between values whose differences put the smoothed    *)
(* sync error inside every tier and on every threshold between two tiers,  *)
(* in both directions, with the filter error below and above the           *)
(* confidence cap.                                                         *)
(***************************************************************************)
TierOffsets == {0, -10000, -80000, -350000, -2000000, -6000000}

NextTiers ==
  \/ BinaryMessage(FirstServerTimeUs + host.chunksReceived * ChunkDurationUs)
  \/ DebounceFire
  \/ \E offset \in TierOffsets : ServerTime(offset, 1000)
  \/ \E offset \in {0, -6000000} : ServerTime(offset, 20000)

SpecTiers == InitScheduler /\ [][NextTiers]_vars

(***************************************************************************)
(* SpecTime: time synchronisation after the handshake.  client/time        *)
(* requests carry the client clock at the time they are sent; replies      *)
(* echo either the current client clock or a client_transmitted that lies  *)
(* in the client's future, which no request sent so far can carry.         *)
(***************************************************************************)
FutureUs == 500 * 1000

NextTime ==
  \/ TimeSyncTimer
  \/ Tick
  \/ \E offset \in TierOffsets : ServerTimeFrom(host.now, offset)
  \/ \E offset \in TierOffsets : ServerTimeFrom(host.now + FutureUs, offset)

SpecTime == InitStream /\ [][NextTime]_vars

(***************************************************************************)
(* SpecDebounce: arrivals on every decode path, passes and stream/clear    *)
(* while the clock advances, so that frames of one batch arrive at         *)
(* different times.                                                        *)
(***************************************************************************)
NextDebounce ==
  \/ StreamClear([hasRoles |-> TRUE, roles |-> {"player"}])
  \/ BinaryMessage(FirstServerTimeUs)
  \/ \E i \in 1..MaxChunks : DecodeComplete(i)
  \/ \E i \in 1..MaxChunks : NativeOutput(i)
  \/ DebounceFire
  \/ Tick

SpecDebounce == InitRace /\ [][NextDebounce]_vars

(***************************************************************************)
(* SpecOverlap: a contiguous stream while the sync delay is changed at     *)
(* run time by half a chunk duration, in either direction.                 *)
(***************************************************************************)
OverlapDelays == {0, -50, 50}

NextOverlap ==
  \/ NextInOrder
  \/ \E delayMs \in OverlapDelays : SetSyncDelay(delayMs)

SpecOverlap == InitScheduler /\ [][NextOverlap]_vars

(***************************************************************************)
(* SpecLatency: the in-order stream on a sink that reports a constant      *)
(* output latency, with output-latency compensation enabled or disabled.   *)
(* The exponential average of a constant latency is that latency.          *)
(***************************************************************************)
OutputLatencies == {0, 30000}

InitLatency ==
  \E compensation \in BOOLEAN : \E latency \in OutputLatencies :
    StartsAt(Streaming(Handshaken(
               [Constructed(FALSE, TRUE, "sync") EXCEPT
                  !.host.useOutputLatencyCompensation = compensation,
                  !.host.outputLatencyUs = latency])),
             "stream/start")

SpecLatency == InitLatency /\ [][NextInOrder]_vars

(***************************************************************************)
(* SpecMerge: deltas merged into the cached server and group state whose   *)
(* values nest objects two levels below the top-level key.                 *)
(***************************************************************************)
ProgressValues ==
  {Object(fields) :
     fields \in ObjectsOver({"position", "duration"}, {Null, Leaf(1), Leaf(2)})}

DeepValues ==
  {Object(fields) :
     fields \in ObjectsOver({"progress"}, {Null, Leaf(1)} \cup ProgressValues)}

DeepPayloads ==
  ObjectsOver({"metadata"}, {Null, Leaf(1), Array(1)} \cup DeepValues)

NextMerge ==
  \/ \E delta \in DeepPayloads : UpdateServerState(delta)
  \/ \E delta \in DeepPayloads : UpdateGroupState(delta)

SpecMerge == InitState /\ [][NextMerge]_vars

(***************************************************************************)
(* SpecAdjust: adjustBufferSamples applied, by the player of a running     *)
(* stream, to a decoded frame of one or two channels and of zero to        *)
(* MaxSamples samples per channel.                                         *)
(***************************************************************************)
MaxSamples == 3

SampleValues == {0, 2, 4}

ChannelDatas == UNION {[1..n -> SampleValues] : n \in 0..MaxSamples}

DecodedBuffers ==
  {[origin |-> "decoder", channelData |-> channelData] :
     channelData \in
       {cd \in UNION {[1..channels -> ChannelDatas] : channels \in 1..2} :
          \A ch \in DOMAIN cd : Len(cd[ch]) = Len(cd[1])}}

InitAdjust ==
  \E buffer \in DecodedBuffers : \E samplesToAdjust \in {-1, 0, 1} :
    LET w == Streaming(Handshaken(Constructed(FALSE, TRUE, "sync")))
    IN /\ stateManager = w.sm
       /\ audioProcessor = w.ap
       /\ timeFilter = w.tf
       /\ wsManager = [w.ws EXCEPT !.sent = <<>>]
       /\ host = w.host
       /\ lastPass = EmptyPass
       /\ decoding = <<>>
       /\ lastEvent = [type |-> "decoded", buffer |-> buffer,
                       samplesToAdjust |-> samplesToAdjust]

\* The scheduling pass replaces the buffer of a chunk by its adjustment.
AdjustBufferSamples ==
  /\ lastEvent.type = "decoded"
  /\ audioProcessor.audioContext
  /\ Commit(World)
  /\ lastEvent' = [type |-> "adjustBufferSamples",
                   buffer |-> lastEvent.buffer,
                   samplesToAdjust |-> lastEvent.samplesToAdjust,
                   adjusted |-> adjustBufferSamples(World, lastEvent.buffer,
                                                    lastEvent.samplesToAdjust)]
  /\ UNCHANGED decoding

NextAdjust == AdjustBufferSamples

SpecAdjust == InitAdjust /\ [][NextAdjust]_vars

(***************************************************************************)
(* SpecCut: chunks in any order while the measured clock offset moves by   *)
(* a fraction of a chunk, so that a resync target can fall inside a source *)
(* that is already scheduled.                                              *)
(***************************************************************************)
CutOffsets == {0, 150000}

NextCut ==
  \/ \E serverTime \in SchedulerServerTimes : BinaryMessage(serverTime)
  \/ DebounceFire
  \/ \E offset \in CutOffsets : ServerTime(offset, 1000)

SpecCut == InitScheduler /\ [][NextCut]_vars

(***************************************************************************)
(* Specification of the correction tiers: the same streaming player in     *)
(* each correction mode, with clock offsets whose differences put the      *)
(* smoothed sync error into every tier of every mode, and on the           *)
(* samples/resync threshold of the two quality modes.                      *)
(***************************************************************************)
InitCorrection ==
  \E correctionMode \in Modes :
    StartsAt(Streaming(Handshaken(Constructed(FALSE, TRUE, correctionMode))),
             "stream/start")

CorrectionOffsets == {0, -5000, -50000, -350000, -6000000, -13000000}

NextCorrection ==
  \/ \E serverTime \in SchedulerServerTimes : BinaryMessage(serverTime)
  \/ DebounceFire
  \/ \E offset \in CorrectionOffsets : \E err \in SchedulerErrors :
       ServerTime(offset, err)

SpecCorrection == InitCorrection /\ [][NextCorrection]_vars

(***************************************************************************)
(* Properties.                                                             *)
(***************************************************************************)
\* The entries of the last pass that were handed to the sink.
Handed == {i \in 1..Len(lastPass.frames) : ~lastPass.frames[i].late}

MessageTypes(sent) == [i \in 1..Len(sent) |-> sent[i].message.type]

\* C1 (P3, generation isolation): every frame a scheduling pass hands to
\* the sink carries the stream generation that is current during that pass,
\* which is the State Store's stream_generation.
C1_GenerationIsolation ==
  lastEvent.type = "pass" =>
    /\ lastPass.generation = stateManager.streamGeneration
    /\ \A i \in Handed : lastPass.frames[i].generation = lastPass.generation

\* A pass after a buffer clear has handed a frame to the sink.
C1_Witness ==
  /\ lastEvent.type = "pass"
  /\ Handed # {}
  /\ lastPass.generation >= 4

\* C2: on every decode path the generation stamped on a queued frame is the
\* one captured before its decode started, and a frame whose captured
\* generation is no longer current when its decode completes is not enqueued.
C2_StampIsCapturedGeneration ==
  \A i \in 1..Len(audioProcessor.audioBufferQueue) :
    /\ audioProcessor.audioBufferQueue[i].generation
         = audioProcessor.audioBufferQueue[i].captured
    /\ audioProcessor.audioBufferQueue[i].captured
         = stateManager.streamGeneration

\* An interval of the given kind is running under the id the State Store holds.
TimerRunning(sm, h, kind) ==
  LET id == IF kind = "time" THEN sm.timeSyncInterval ELSE sm.stateUpdateInterval
  IN id # 0 /\ [id |-> id, kind |-> kind] \in h.intervals

\* C3 (handshake ordering): the step that opens the channel sends exactly
\* one client/hello; the step that handles server/hello sends exactly one
\* client/state and then one client/time, in that order, and leaves both
\* periodic timers running.
C3_HandshakeOrdering ==
  [][/\ lastEvent'.type = "open" =>
          MessageTypes(wsManager'.sent) = <<"client/hello">>
     /\ lastEvent'.type = "server/hello" =>
          /\ MessageTypes(wsManager'.sent) = <<"client/state", "client/time">>
          /\ wsManager'.sent[2].message.client_transmitted = host'.now
          /\ TimerRunning(stateManager', host', "time")
          /\ TimerRunning(stateManager', host', "state")]_vars

\* server/hello has been handled on an open channel.
C3_Witness ==
  /\ lastEvent.type = "server/hello"
  /\ Len(wsManager.sent) = 2
  /\ TimerRunning(stateManager, host, "time")
  /\ TimerRunning(stateManager, host, "state")

\* The volume or mute change an event asks for, if it asks for one.
IsVolumeChange(e) ==
  \/ e.type = "setVolume"
  \/ e.type = "server/command" /\ e.payload.hasPlayer /\ e.payload.hasValue
       /\ e.payload.command = "volume"

IsMuteChange(e) ==
  \/ e.type = "setMuted"
  \/ e.type = "server/command" /\ e.payload.hasPlayer /\ e.payload.hasValue
       /\ e.payload.command = "mute"

RequestedVolume(e) ==
  LET v == IF e.type = "setVolume" THEN e.volume ELSE e.payload.volume
  IN Max(0, Min(100, v))

RequestedMuted(e) == IF e.type = "setMuted" THEN e.muted ELSE e.payload.mute

\* The local state has the requested value, and every client/state of the
\* step was sent after the state took it.
AppliedBeforeAck(e, sm, sent) ==
  /\ IsVolumeChange(e) => sm.volume = RequestedVolume(e)
  /\ IsMuteChange(e) => sm.muted = RequestedMuted(e)
  /\ \A i \in 1..Len(sent) :
       /\ sent[i].message.type = "client/state"
       /\ sent[i].seen.volume = sm.volume
       /\ sent[i].seen.muted = sm.muted

Flushed(apBefore, apAfter, sinkAfter) ==
  /\ apAfter.audioBufferQueue = <<>>
  /\ apAfter.scheduledSources = <<>>
  /\ ~apAfter.queueProcessTimeout
  /\ \A i \in 1..Len(apBefore.scheduledSources) :
       \A s \in sinkAfter : s.id # apBefore.scheduledSources[i].source

\* Every queued frame and every tracked source belongs to the current
\* stream generation.
OnlyCurrentGeneration ==
  /\ \A i \in 1..Len(audioProcessor.audioBufferQueue) :
       audioProcessor.audioBufferQueue[i].generation
         = stateManager.streamGeneration
  /\ \A s \in host.sink :
       s.tracked => s.generation = stateManager.streamGeneration

\* C4 (seek / buffer clear): a stream/clear for the player stops every
\* scheduled source, empties the queue, zeroes the anchors, the smoothed
\* error and the resync count and increases stream_generation, leaving the
\* format, is_playing and the time filter alone; a stream/clear for other
\* roles changes nothing.  Nothing queued before the clear survives it, and
\* a synchronized pass processes every chunk queued after it.
C4_StreamClear ==
  [][/\ lastEvent'.type = "stream/clear" =>
          IF ForPlayer(lastEvent'.payload)
            THEN /\ Flushed(audioProcessor, audioProcessor', host'.sink)
                 /\ audioProcessor'.nextPlaybackTime = 0
                 /\ audioProcessor'.lastScheduledServerTime = 0
                 /\ audioProcessor'.smoothedSyncErrorMs = 0
                 /\ audioProcessor'.resyncCount = 0
                 /\ stateManager'.streamGeneration > stateManager.streamGeneration
                 /\ stateManager'.currentStreamFormat
                      = stateManager.currentStreamFormat
                 /\ stateManager'.isPlaying = stateManager.isPlaying
                 /\ timeFilter' = timeFilter
                 /\ OnlyCurrentGeneration'
            ELSE UNCHANGED <<stateManager, audioProcessor, timeFilter, host>>
     /\ (lastEvent'.type = "pass" /\ timeFilter.is_synchronized) =>
          /\ Len(lastPass'.frames) = Len(audioProcessor.audioBufferQueue)
          /\ \A i \in 1..Len(lastPass'.frames) :
               lastPass'.frames[i].generation = stateManager'.streamGeneration
          /\ audioProcessor'.audioBufferQueue = <<>>]_vars

\* A stream/clear for the player has flushed a queued chunk and a scheduled
\* source.
C4_Witness ==
  /\ lastEvent.type = "stream/clear"
  /\ ForPlayer(lastEvent.payload)
  /\ lastEvent.queued >= 1
  /\ lastEvent.scheduled >= 1
  /\ audioProcessor.audioBufferQueue = <<>>
  /\ stateManager.streamGeneration >= 4

\* C5 (format update): a stream/start while a format is current replaces the
\* format only: generation, queue and scheduled sources stay, and the queued
\* frames still pass the generation filter.  A stream/start with no current
\* format stores the format, increases the generation and sets is_playing.
C5_FormatUpdate ==
  [][lastEvent'.type = "stream/start" =>
       IF lastEvent'.isFormatUpdate
         THEN /\ stateManager' = [stateManager EXCEPT
                                    !.currentStreamFormat = lastEvent'.format]
              /\ UNCHANGED <<audioProcessor, timeFilter, host, decoding>>
              /\ filterQueue(audioProcessor'.audioBufferQueue,
                             stateManager'.streamGeneration)
                   = audioProcessor.audioBufferQueue
         ELSE /\ stateManager'.currentStreamFormat = lastEvent'.format
              /\ stateManager'.streamGeneration > stateManager.streamGeneration
              /\ stateManager'.isPlaying]_vars

\* A format update arrived while a chunk was queued and a source scheduled.
C5_Witness ==
  /\ lastEvent.type = "stream/start"
  /\ lastEvent.isFormatUpdate
  /\ lastEvent.queued >= 1
  /\ lastEvent.scheduled >= 1
  /\ Len(audioProcessor.audioBufferQueue) >= 1
  /\ Len(audioProcessor.scheduledSources) >= 1

\* C6 (stream end): a stream/end for the player flushes the buffers, clears
\* the format and is_playing, and sends one client/state only after those
\* changes; a stream/end for other roles changes nothing and sends nothing.
C6_StreamEnd ==
  [][lastEvent'.type = "stream/end" =>
       IF ForPlayer(lastEvent'.payload)
         THEN /\ Flushed(audioProcessor, audioProcessor', host'.sink)
              /\ stateManager'.currentStreamFormat = NoFormat
              /\ ~stateManager'.isPlaying
              /\ MessageTypes(wsManager'.sent) = <<"client/state">>
              /\ wsManager'.sent[1].seen.currentStreamFormat = NoFormat
              /\ ~wsManager'.sent[1].seen.isPlaying
              /\ wsManager'.sent[1].seen.queued = 0
              /\ wsManager'.sent[1].seen.scheduled = 0
         ELSE /\ UNCHANGED <<stateManager, audioProcessor, timeFilter, host>>
              /\ wsManager'.sent = <<>>]_vars

\* A stream/end for the player ended a stream with buffered audio.
C6_Witness ==
  /\ lastEvent.type = "stream/end"
  /\ ForPlayer(lastEvent.payload)
  /\ lastEvent.queued >= 1
  /\ lastEvent.scheduled >= 1
  /\ Len(wsManager.sent) = 1
  /\ ~stateManager.isPlaying

AnchorTiers == {"wait", "deadband", "samples", "rate"}
TargetTiers == {"first", "gap", "resync"}

\* C8 as stated (P1, monotone schedule): within a pass the schedule_at
\* values of the frames handed to the sink are non-decreasing.
C8_MonotoneSchedule ==
  lastEvent.type = "pass" =>
    \A i \in Handed : \A j \in Handed :
      i < j => lastPass.frames[i].playbackTime <= lastPass.frames[j].playbackTime

\* C8 amended: within a pass, a handed frame placed from the running anchor
\* (wait, deadband, samples, rate) is not earlier than the frame processed
\* just before it, which was handed too; and the frames placed at their
\* target (Case A, gap, resync) are non-decreasing among themselves.
C8_MonotoneWithinAnchorRuns ==
  lastEvent.type = "pass" =>
    /\ \A i \in Handed :
         (i > 1 /\ lastPass.frames[i].tier \in AnchorTiers) =>
           /\ (i - 1) \in Handed
           /\ lastPass.frames[i - 1].playbackTime
                <= lastPass.frames[i].playbackTime
    /\ \A i \in Handed : \A j \in Handed :
         (/\ i < j
          /\ lastPass.frames[i].tier \in TargetTiers
          /\ lastPass.frames[j].tier \in TargetTiers) =>
           lastPass.frames[i].playbackTime <= lastPass.frames[j].playbackTime

\* A pass handed a frame from the running anchor and then resynchronised a
\* later frame to its target.
C8_Witness ==
  /\ lastEvent.type = "pass"
  /\ \E i \in Handed : \E j \in Handed :
       /\ i < j
       /\ lastPass.frames[i].tier \in AnchorTiers
       /\ lastPass.frames[j].tier = "resync"

\* C9: within a pass the frames are dispatched in ascending server_time,
\* whatever order they arrived in.
C9_AscendingServerTime ==
  lastEvent.type = "pass" =>
    \A i \in 1..Len(lastPass.frames) : \A j \in 1..Len(lastPass.frames) :
      i < j => lastPass.frames[i].serverTime <= lastPass.frames[j].serverTime

\* Three chunks that arrived in the order 3, 1, 2 were all handed to the sink.
C9_Witness ==
  /\ lastEvent.type = "pass"
  /\ Len(lastPass.queued) = 3
  /\ lastPass.queued[1].serverTime > lastPass.queued[3].serverTime
  /\ lastPass.queued[3].serverTime > lastPass.queued[2].serverTime
  /\ Handed = {1, 2, 3}

\* C10 (P6, late drop): a frame whose schedule_at is earlier than the sink's
\* current time is not handed to the sink, both anchors are 0 right after
\* the drop, and the pass goes on to the remaining frames.
C10_LateDrop ==
  lastEvent.type = "pass" =>
    /\ \A i \in 1..Len(lastPass.frames) :
         lastPass.frames[i].playbackTime < lastPass.audioContextTime =>
           /\ lastPass.frames[i].source = 0
           /\ lastPass.frames[i].nextAfter = 0
           /\ lastPass.frames[i].lastAfter = 0
    /\ \A i \in Handed :
         /\ lastPass.frames[i].playbackTime >= lastPass.audioContextTime
         /\ lastPass.frames[i].source # 0
    /\ (timeFilter.is_synchronized \/ lastPass.frames # <<>>) =>
         /\ Len(lastPass.frames) = Len(lastPass.queued)
         /\ audioProcessor.audioBufferQueue = <<>>

\* A pass dropped a late frame and handed a later one to the sink.
C10_Witness ==
  /\ lastEvent.type = "pass"
  /\ \E i \in 1..Len(lastPass.frames) : \E j \in Handed :
       /\ i < j
       /\ lastPass.frames[i].late
       /\ lastPass.frames[i].nextAfter = 0

\* The scheduler had an anchor when it took frame f: a frame was scheduled
\* before it and none was dropped since.
Anchored(f) == f.nextBefore # 0 /\ f.lastBefore # 0

\* C11 (resync on gap): a frame taken with an anchor whose server_time
\* differs from last_scheduled_server_end_time by more than 100 ms is placed
\* at its drift-corrected target (not at next_playback_time) with
\* playback_rate 1 and its decoded length, and resync_count increases by
\* exactly one; it is handed to the sink unless that target is already past.
C11_ResyncOnGap ==
  lastEvent.type = "pass" =>
    \A i \in 1..Len(lastPass.frames) :
      LET f == lastPass.frames[i]
      IN (Anchored(f) /\ Abs(f.serverTime - f.lastBefore) > GAP_US) =>
           /\ f.playbackTime = f.target
           /\ f.playbackRate = 100
           /\ f.samples = 0
           /\ f.resyncAfter = f.resyncBefore + 1
           /\ i \in Handed <=> f.target >= lastPass.audioContextTime

\* A frame more than 100 ms off the server timeline was handed to the sink
\* at a target that is not the running anchor.
C11_Witness ==
  /\ lastEvent.type = "pass"
  /\ \E i \in Handed :
       LET f == lastPass.frames[i]
       IN /\ Anchored(f)
          /\ Abs(f.serverTime - f.lastBefore) > GAP_US
          /\ f.target # f.nextBefore
          /\ f.resyncAfter = f.resyncBefore + 1

\* The positions of the frames of generation g in a queue.
FramesOf(queue, g) == {i \in 1..Len(queue) : queue[i].generation = g}

\* C12 (hold while unsynchronized): a scheduling pass that runs while the
\* time filter is not synchronized, or while there is no audio sink, hands
\* no frame to the sink and keeps every queued frame of the current
\* generation in the queue.
C12_HeldWhileUnsynchronized ==
  [][(/\ lastEvent'.type = "pass"
      /\ ~timeFilter.is_synchronized \/ ~audioProcessor.audioContext) =>
       LET g == stateManager.streamGeneration
           before == audioProcessor.audioBufferQueue
           after == audioProcessor'.audioBufferQueue
       IN /\ host'.sink = host.sink
          /\ audioProcessor'.scheduledSources = audioProcessor.scheduledSources
          /\ lastPass'.frames = <<>>
          /\ stateManager'.streamGeneration = g
          /\ Cardinality(FramesOf(after, g)) = Cardinality(FramesOf(before, g))
          /\ \A i \in FramesOf(before, g) :
               \E j \in FramesOf(after, g) : after[j] = before[i]]_vars

\* A pass ran over two queued frames while the filter was unsynchronized and
\* left both in the queue.
C12_Witness ==
  /\ lastEvent.type = "pass"
  /\ ~timeFilter.is_synchronized
  /\ Len(lastPass.queued) >= 2
  /\ Len(audioProcessor.audioBufferQueue) >= 2
  /\ host.sink = {}

\* Frames of the current generation wait in the queue of a synchronized
\* scheduler, and no decode is in flight that could still arm the debounce
\* timer.
HeldAfterSync ==
  /\ timeFilter.is_synchronized
  /\ FramesOf(audioProcessor.audioBufferQueue,
              stateManager.streamGeneration) # {}
  /\ decoding = <<>>

\* C13 (resume after sync): whenever frames of the current generation wait
\* in the queue of a synchronized scheduler, a scheduling pass is pending
\* (the debounce timer is armed), so that the pass runs over them even if no
\* further audio chunk arrives.  Only the debounce timer starts a pass; in a
\* state where this fails, the run in which the server sends no further
\* chunk never runs a pass over the held frames.
C13_ResumeAfterSync ==
  HeldAfterSync => audioProcessor.queueProcessTimeout

\* Nothing of a session is left: no periodic timer, no pending pass, no
\* tracked source, no time filter state.
CleanedUp(sm, ap, tf, h) ==
  /\ sm.timeSyncInterval = 0
  /\ sm.stateUpdateInterval = 0
  /\ h.intervals = {}
  /\ ~ap.queueProcessTimeout
  /\ ap.scheduledSources = <<>>
  /\ tf = [count |-> 0, offset |-> 0, error |-> 0, is_synchronized |-> FALSE]

\* C14 (channel close cleanup): the step in which the channel closes, by a
\* local disconnect or by the peer or the network, clears both periodic
\* timers, the debounce timer and the scheduled sources and discards the
\* time filter state; and no timer fires while the channel is closed.
C14_CloseCleanup ==
  [][/\ lastEvent'.type \in {"close", "disconnect"} =>
          CleanedUp(stateManager', audioProcessor', timeFilter', host')
     /\ lastEvent'.type \in {"timer", "pass"} => wsManager.open]_vars

\* C19 (goodbye): a disconnect called while the channel is open sends
\* exactly one message, a client/goodbye with the caller's reason, one of
\* another_server, shutdown, restart and user_request, and the channel is
\* closed only afterwards; a disconnect of a closed channel sends nothing.
C19_GoodbyeBeforeClose ==
  [][lastEvent'.type = "disconnect" =>
       /\ ~wsManager'.open
       /\ IF wsManager.open
            THEN /\ MessageTypes(wsManager'.sent) = <<"client/goodbye">>
                 /\ wsManager'.sent[1].message.reason = lastEvent'.reason
                 /\ wsManager'.sent[1].message.reason \in GoodbyeReasons
            ELSE wsManager'.sent = <<>>]_vars

\* A disconnect with reason user_request closed an open channel on which the
\* handshake had completed.
C19_Witness ==
  /\ lastEvent.type = "disconnect"
  /\ lastEvent.reason = "user_request"
  /\ Len(wsManager.sent) = 1
  /\ wsManager.sent[1].message.type = "client/goodbye"
  /\ ~wsManager.open
  /\ host.timersCreated >= 2

\* Frame f continues the server timeline of the frame scheduled before it.
Contiguous(f) == Anchored(f) /\ Abs(f.serverTime - f.lastBefore) < GAP_US

\* C15 (P5, deadband): a contiguous frame whose smoothed sync error is
\* below the deadband of the correction mode in magnitude is placed with
\* playback_rate exactly 1 and with its decoded length, no sample inserted
\* or deleted.
C15_Deadband ==
  lastEvent.type = "pass" =>
    \A i \in 1..Len(lastPass.frames) :
      LET f == lastPass.frames[i]
      IN (/\ Contiguous(f)
          /\ Abs(f.correctionError)
               < CORRECTION_THRESHOLDS[f.mode].deadbandBelowMs) =>
           /\ f.playbackRate = 100
           /\ f.samples = 0

\* A quality-local frame with a non-zero smoothed error inside the 5 ms
\* deadband was handed to the sink at the running anchor.
C15_Witness ==
  /\ lastEvent.type = "pass"
  /\ \E i \in Handed :
       LET f == lastPass.frames[i]
       IN /\ Contiguous(f)
          /\ f.mode = "quality-local"
          /\ f.tier = "deadband"
          /\ f.correctionError # 0
          /\ f.playbackTime = f.nextBefore
          /\ f.samples = 0

\* C18 (quality modes): in the modes quality and quality-local every frame
\* is placed with playback_rate exactly 1, whatever the smoothed sync
\* error, also on the samples/resync threshold; the correction method is
\* never "rate", and a sample is inserted or deleted only in the
\* single-sample tier.
C18_NoRateTier ==
  lastEvent.type = "pass" =>
    \A i \in 1..Len(lastPass.frames) :
      LET f == lastPass.frames[i]
      IN f.mode \in {"quality", "quality-local"} =>
           /\ f.playbackRate = 100
           /\ f.method # "rate"
           /\ f.samples # 0 => f.tier = "samples"
           /\ \A s \in host.sink : s.playbackRate = 100

\* A quality-mode frame whose smoothed error is exactly the 35 ms
\* samples/resync threshold was handed to the sink.
C18_Witness ==
  /\ lastEvent.type = "pass"
  /\ \E i \in Handed :
       LET f == lastPass.frames[i]
       IN /\ f.mode = "quality"
          /\ Contiguous(f)
          /\ Abs(f.correctionError) = CORRECTION_THRESHOLDS[f.mode].resyncAboveMs
          /\ f.tier = "rate"

\* C17 (P7, volume clamp): whatever value a server volume command or a
\* local setVolume call writes, the volume of the State Store lies in
\* [0,100].
C17_VolumeClamp == stateManager.volume \in 0..100

\* C16 (P4, diff-merge idempotence): for every cached state s and every
\* diff d without a nested object, merge(s, {}) = s and
\* merge(merge(s, d), d) = merge(s, d).
C16_MergeIdempotent ==
  \A s \in {stateManager.serverState, stateManager.groupState} :
    /\ applyDiff(s, EmptyObject) = s
    /\ \A d \in LeafDiffs :
         applyDiff(applyDiff(s, d), d) = applyDiff(s, d)

\* A leaf-only diff that deletes the key player and sets the key metadata to
\* a leaf has been merged into the cached server state.
C16_Witness ==
  /\ lastEvent.type = "updateServerState"
  /\ lastEvent.update \in LeafDiffs
  /\ DOMAIN lastEvent.update = {"metadata", "player"}
  /\ lastEvent.update["player"].kind = "null"
  /\ DOMAIN stateManager.serverState = {"metadata"}
  /\ stateManager.serverState["metadata"] = Leaf(1)
  /\ stateManager.groupState # EmptyObject

\* C20 (cached state): after a server/state message the cached server
\* state, and after a group/update message the cached group state, equals
\* the merge of the previous cached state and the payload.
C20_MessagesAreMerged ==
  [][/\ lastEvent'.type = "server/state" =>
          stateManager'.serverState
            = applyDiff(stateManager.serverState, lastEvent'.payload)
     /\ lastEvent'.type = "group/update" =>
          stateManager'.groupState
            = applyDiff(stateManager.groupState, lastEvent'.payload)]_vars

\* C21 (malformed frames): a frame that is not well formed is dropped: no
\* error leaves the message handler and the session and scheduler state are
\* unchanged; and a stream/start that follows on a session without a stream
\* is processed as a new stream.
C21_MalformedDropped ==
  [][/\ lastEvent'.type = "malformed" =>
          /\ ~lastEvent'.threw
          /\ UNCHANGED <<stateManager, audioProcessor, timeFilter, host>>
     /\ (lastEvent'.type = "stream/start" /\ ~stateManager.isPlaying) =>
          stateManager'.streamGeneration > stateManager.streamGeneration]_vars

\* C22 (in-order playback): as long as the clock has not passed the time
\* the first chunk is due at the sink (so that no chunk was taken too late
\* to play), the chunks of a fresh stream that arrive in order with
\* contiguous server timestamps give one source per chunk a pass has taken;
\* every source plays at rate 1 for the chunk's duration, and each starts
\* where the source of the previous chunk ends.
C22_InOrderPlayback ==
  host.now <= FirstServerTimeUs + BUFFER_US =>
    /\ Cardinality(host.sink)
         = host.chunksReceived - Len(audioProcessor.audioBufferQueue)
    /\ \A s \in host.sink :
         /\ s.playbackRate = 100
         /\ s.endTime = s.startTime + ChunkDurationUs
    /\ \A s \in host.sink : \A t \in host.sink :
         t.serverTime = s.serverTime + ChunkDurationUs =>
           /\ t.startTime = s.endTime
           /\ t.startTime > s.startTime

\* Three chunks were scheduled by more than one pass and gave three sources.
C22_Witness ==
  /\ host.chunksReceived = 3
  /\ Cardinality(host.sink) = 3
  /\ lastEvent.type = "pass"
  /\ Len(lastPass.frames) = 1
  /\ host.now > 0

\* C23 (sync delay): every frame of the in-order stream that is handed to
\* the sink is placed at its server time converted to sink time, plus the
\* 200 ms buffer, plus the sync delay configured when the pass runs; this
\* holds for the frames placed back-to-back at next_playback_time after the
\* delay was changed at run time.
C23_SyncDelayIncluded ==
  lastEvent.type = "pass" =>
    \A i \in Handed :
      LET f == lastPass.frames[i]
      IN f.playbackTime
           = lastPass.audioContextTime
             + (computeClientTime(timeFilter, f.serverTime) - host.now)
             + BUFFER_US + audioProcessor.syncDelayMs * 1000

\* A frame was placed back-to-back at the anchor after the delay had been
\* made smaller and then larger again; a frame placed while the delay was
\* smaller starts before its predecessor ends.
C23_Witness ==
  /\ lastEvent.type = "pass"
  /\ audioProcessor.syncDelayMs = 0
  /\ \E i \in Handed :
       /\ Contiguous(lastPass.frames[i])
       /\ lastPass.frames[i].tier \in AnchorTiers
  /\ \E s \in host.sink : \E t \in host.sink :
       /\ t.serverTime = s.serverTime + ChunkDurationUs
       /\ t.startTime < s.endTime

\* C24 (cancel on resync): after a pass, for every frame of it that took
\* the gap branch or the tier-4 resync, no source that was handed to the
\* sink before that frame and starts at or after the frame's target still
\* has audio to play.
C24_CancelOnResync ==
  lastEvent.type = "pass" =>
    \A i \in 1..Len(lastPass.frames) :
      LET f == lastPass.frames[i]
      IN f.tier \in {"gap", "resync"} =>
           \A s \in host.sink :
             (s.id <= f.created /\ s.startTime >= f.target) =>
               s.endTime <= lastPass.audioContextTime

\* C25 (no stale chunk): on a running stream where only stream/clear and
\* stream/end advance the stream generation, every frame a pass hands to the
\* sink was delivered in the generation that is current at the pass, that
\* is, no stream/clear or stream/end for the player was processed between
\* its delivery and the pass.
C25_NoStaleChunk ==
  lastEvent.type = "pass" =>
    \A i \in Handed :
      lastPass.frames[i].delivered = stateManager.streamGeneration

\* What the tier table of the default mode prescribes for a contiguous
\* frame, given whether the frame falls to the resync tier.
SyncTierOutcome(f, resync) ==
  LET a == Abs(f.correctionError)
  IN IF f.timeFilterError > 15000
       THEN /\ f.playbackTime = f.nextBefore
            /\ f.playbackRate = 100
            /\ f.samples = 0
            /\ f.resyncAfter = f.resyncBefore
     ELSE IF resync
       THEN /\ f.playbackTime = f.target
            /\ f.playbackRate = 100
            /\ f.samples = 0
            /\ f.smoothedAfter = 0
            /\ f.resyncAfter = f.resyncBefore + 1
     ELSE /\ f.playbackTime = f.nextBefore
          /\ f.resyncAfter = f.resyncBefore
          /\ IF a < 1000 THEN f.playbackRate = 100 /\ f.samples = 0
             ELSE IF a < 8000
               THEN /\ f.playbackRate = 100
                    /\ f.samples \in {SamplePeriodUs, -SamplePeriodUs}
             ELSE IF a < 35000
               THEN f.playbackRate \in {99, 101} /\ f.samples = 0
             ELSE f.playbackRate \in {98, 102} /\ f.samples = 0

\* The contiguous frames of the last pass, as indices into its log.
ContiguousFrames ==
  {i \in 1..Len(lastPass.frames) : lastPass.frames[i].tier \notin {"first", "gap"}}

\* C26 as stated (tier selection, resync from 200 ms on): after a pass in
\* the default mode every contiguous frame got the outcome of its tier,
\* where a smoothed error of 200 ms or more is the resync tier.
C26_TierSelection ==
  lastEvent.type = "pass" =>
    \A i \in ContiguousFrames :
      SyncTierOutcome(lastPass.frames[i],
                      Abs(lastPass.frames[i].correctionError) >= 200000)

\* C26 amended (tier selection, resync above 200 ms): the same, where the
\* resync tier is a smoothed error of more than 200 ms and an error of
\* exactly 200 ms is still the 2 % rate tier.
C26_TierSelectionAbove ==
  lastEvent.type = "pass" =>
    \A i \in ContiguousFrames :
      SyncTierOutcome(lastPass.frames[i],
                      Abs(lastPass.frames[i].correctionError) > 200000)

\* A pass scheduled a contiguous frame whose smoothed error is exactly
\* 200 ms, with the filter error under the cap.
C26_Witness ==
  /\ lastEvent.type = "pass"
  /\ \E i \in ContiguousFrames :
       /\ Abs(lastPass.frames[i].correctionError) = 200000
       /\ lastPass.frames[i].timeFilterError <= 15000
       /\ ~lastPass.frames[i].late

\* C27 (unmatched reply ignored): a step that handles a server/time reply
\* whose client_transmitted is later than the client clock, and so matches
\* no client/time request sent so far, leaves the Time Filter unchanged.
C27_UnmatchedReplyIgnored ==
  [][(/\ lastEvent'.type = "server/time"
      /\ lastEvent'.client_transmitted > host.now)
       => timeFilter' = timeFilter]_vars

\* C28 (debounce): at most one debounce timer is pending; a step in which
\* a decoded frame arrives (the queue grows) appends that frame to the
\* queue and leaves exactly one timer, due 50 ms after the arrival; the
\* step in which the timer fires runs one pass over the whole queue, leaves
\* no timer pending and, the clock being synchronized, leaves no frame
\* queued.
C28_Debounce ==
  [][/\ Len(host'.timeouts) <= 1
     /\ audioProcessor'.queueProcessTimeout <=> host'.timeouts # <<>>
     /\ Len(audioProcessor'.audioBufferQueue) > Len(audioProcessor.audioBufferQueue)
          => /\ lastEvent'.type \in {"binary", "converted", "decoded"}
             /\ SubSeq(audioProcessor'.audioBufferQueue, 1,
                       Len(audioProcessor.audioBufferQueue))
                  = audioProcessor.audioBufferQueue
             /\ Len(audioProcessor'.audioBufferQueue)
                  = Len(audioProcessor.audioBufferQueue) + 1
             /\ host'.timeouts = <<host.now + DEBOUNCE_US>>
     /\ lastEvent'.type = "pass"
          => /\ lastPass'.queued = audioProcessor.audioBufferQueue
             /\ host'.timeouts = <<>>
             /\ timeFilter.is_synchronized
                  => audioProcessor'.audioBufferQueue = <<>>]_vars

\* One pass took two or more frames that had arrived since the pass before,
\* at least one of them through a decode that completed later than the
\* handler that received it.
C28_Witness ==
  /\ lastEvent.type = "pass"
  /\ Len(lastPass.queued) >= 2
  /\ host.ticks >= 1
  /\ stateManager.currentStreamFormat \in {"flac", "opus"}

\* The frames of the last pass that were corrected (sample or rate tier)
\* and handed to the sink.
CorrectedFrames ==
  {i \in Handed : lastPass.frames[i].tier \in {"samples", "rate"}}

\* By how much the correction changed the time the frame takes to play.
CorrectionChange(f) == (f.nextAfter - f.nextBefore) - f.duration

\* The sync error measured on the frame: next_playback_time - target.
RawSyncError(f) == f.nextBefore - f.target

\* e > 0 shortens playback by deleting a sample or by a rate above 1,
\* e < 0 lengthens it by inserting a sample or by a rate below 1.
CorrectionDirection(f) ==
  /\ f.correctionError # 0
  /\ f.correctionError > 0 =>
       /\ CorrectionChange(f) < 0
       /\ IF f.tier = "samples" THEN f.samples = -SamplePeriodUs
          ELSE f.playbackRate > 100
  /\ f.correctionError < 0 =>
       /\ CorrectionChange(f) > 0
       /\ IF f.tier = "samples" THEN f.samples = SamplePeriodUs
          ELSE f.playbackRate < 100

\* C29 as stated (correction direction, never away from the target): every
\* corrected frame is corrected in the direction of e, and after it
\* next_playback_time is no further from the target than it would be had
\* the frame played uncorrected.
C29_CorrectionDirection ==
  lastEvent.type = "pass" =>
    \A i \in CorrectedFrames :
      LET f == lastPass.frames[i]
      IN /\ CorrectionDirection(f)
         /\ Abs(RawSyncError(f) + CorrectionChange(f)) <= Abs(RawSyncError(f))

\* C29 amended (correction direction, towards the target when the measured
\* error agrees): every corrected frame is corrected in the direction of
\* the smoothed error e; when the error measured on the frame has the sign
\* of e and is at least as large as the change the correction makes, the
\* correction leaves next_playback_time no further from the target.
C29_DirectionOfSmoothedError ==
  lastEvent.type = "pass" =>
    \A i \in CorrectedFrames :
      LET f == lastPass.frames[i]
          agrees == /\ (RawSyncError(f) > 0) = (f.correctionError > 0)
                    /\ Abs(RawSyncError(f)) >= Abs(CorrectionChange(f))
      IN /\ CorrectionDirection(f)
         /\ agrees =>
              Abs(RawSyncError(f) + CorrectionChange(f)) <= Abs(RawSyncError(f))

\* A pass corrected a frame by rate while the error measured on that frame
\* had the opposite sign of the smoothed error.
C29_Witness ==
  /\ lastEvent.type = "pass"
  /\ \E i \in CorrectedFrames :
       /\ lastPass.frames[i].tier = "rate"
       /\ RawSyncError(lastPass.frames[i]) # 0
       /\ (RawSyncError(lastPass.frames[i]) > 0)
            # (lastPass.frames[i].correctionError > 0)

\* C30 (no overlap): of any two sources in the sink that have not been
\* stopped, one ends at or before the other starts.
C30_NoOverlap ==
  \A s \in host.sink : \A t \in host.sink :
    (s.id # t.id /\ s.tracked /\ t.tracked) =>
      (s.endTime <= t.startTime \/ t.endTime <= s.startTime)

\* C31 (late drop leaves the schedule alone): for every frame of a pass
\* that was dropped as late, processing it stopped no scheduled source and
\* left resync_count as it was, and it reset the anchor pair to 0.
C31_LateDropLeavesSchedule ==
  lastEvent.type = "pass" =>
    \A i \in 1..Len(lastPass.frames) :
      LET f == lastPass.frames[i]
      IN f.late =>
           /\ f.cut = 0
           /\ f.resyncAfter = f.resyncBefore
           /\ f.nextAfter = 0
           /\ f.lastAfter = 0

\* The periodic timers of the given kind that are running.
RunningIntervals(kind) == {t \in host.intervals : t.kind = kind}

\* C32 (one timer of each kind): at most one client/time timer and at most
\* one client/state timer is running, each running timer is the one whose
\* id the State Store holds, and after a disconnect, which clears the
\* intervals, no periodic timer is running.
C32_OneTimerPerKind ==
  /\ Cardinality(RunningIntervals("time")) <= 1
  /\ Cardinality(RunningIntervals("state")) <= 1
  /\ \A t \in host.intervals :
       t.id = (IF t.kind = "time" THEN stateManager.timeSyncInterval
                                  ELSE stateManager.stateUpdateInterval)
  /\ lastEvent.type = "disconnect" => host.intervals = {}

\* server/hello was handled a second time, on a connection or after a
\* reconnect, while the timers of the first were running.
C32_Witness ==
  /\ lastEvent.type = "server/hello"
  /\ host.timersCreated >= 4
  /\ Cardinality(host.intervals) = 2

\* C33 (nothing before server/hello): while the State Store holds no
\* time-sync timer, which is so from construction or disconnect until
\* server/hello is handled, no step puts a client/state or a client/time
\* frame on the wire.
C33_NothingBeforeHello ==
  stateManager.timeSyncInterval = 0 =>
    \A i \in 1..Len(wsManager.sent) :
      wsManager.sent[i].message.type \notin {"client/state", "client/time"}

\* C34 (output-latency compensation): with compensation enabled, a
\* server/time measurement taken while the sink exists moves the filter to
\* the clock offset plus the raw output latency, and the target of every
\* frame of a pass has nothing subtracted; with compensation disabled the
\* filter gets the clock offset alone and the target of every frame has the
\* smoothed output latency subtracted.
C34_LatencyCompensation ==
  LET enabled == host.useOutputLatencyCompensation
      latency == host.outputLatencyUs
  IN /\ (lastEvent.type = "server/time" /\ audioProcessor.audioContext) =>
          timeFilter.offset = lastEvent.offset + (IF enabled THEN latency ELSE 0)
     /\ lastEvent.type = "pass" =>
          \A i \in 1..Len(lastPass.frames) :
            lastPass.frames[i].target
              = lastPass.frames[i].serverTime - timeFilter.offset + BUFFER_US
                + audioProcessor.syncDelayMs * 1000
                - (IF enabled THEN 0 ELSE latency)

\* C35 (merge depth): a delta is merged into the cached server state or
\* group state one level deep: a top-level key whose value is null is
\* deleted; where the payload and the cached state both hold an object, the
\* keys of the payload's object are deleted (null) or take the payload's
\* value as it is, and the other keys of the cached object stay; any other
\* value replaces the cached one; keys the payload does not name stay.
C35_MergeOneLevel ==
  [][LET Merged(old, new, diff) ==
            /\ \A k \in DOMAIN old \ DOMAIN diff :
                 k \in DOMAIN new /\ new[k] = old[k]
            /\ \A k \in DOMAIN diff :
                 IF diff[k].kind = "null" THEN k \notin DOMAIN new
                 ELSE /\ k \in DOMAIN new
                      /\ IF /\ diff[k].kind = "object"
                            /\ k \in DOMAIN old
                            /\ old[k].kind = "object"
                           THEN /\ new[k].kind = "object"
                                /\ \A j \in DOMAIN old[k].fields
                                             \ DOMAIN diff[k].fields :
                                     /\ j \in DOMAIN new[k].fields
                                     /\ new[k].fields[j] = old[k].fields[j]
                                /\ \A j \in DOMAIN diff[k].fields :
                                     IF diff[k].fields[j].kind = "null"
                                       THEN j \notin DOMAIN new[k].fields
                                       ELSE /\ j \in DOMAIN new[k].fields
                                            /\ new[k].fields[j]
                                                 = diff[k].fields[j]
                           ELSE new[k] = diff[k]
      IN /\ lastEvent'.type = "updateServerState" =>
                 Merged(stateManager.serverState, stateManager'.serverState,
                        lastEvent'.update)
         /\ lastEvent'.type = "updateGroupState" =>
                 Merged(stateManager.groupState, stateManager'.groupState,
                        lastEvent'.update)]_vars

\* C36 (Opus fallback): an Opus chunk that reaches the decoder while the
\* native decoder cannot be created, or after the switch to the software
\* decoder, is handed to the software decoder (the chunk that made the
\* switch included) and creates no native decoder; when the flag is already
\* off, or the chunk runs the initialization that fails, the flag is off
\* afterwards; and once the flag is off only close() turns it on again.
C36_OpusFallback ==
  [][/\ ( /\ lastEvent'.type = "binary"
          /\ stateManager.currentStreamFormat = "opus"
          /\ audioProcessor.audioContext
          /\ (~audioProcessor.useNativeOpus \/ ~host.nativeOpus) ) =>
          /\ lastEvent'.path = "await"
          /\ Len(decoding') = Len(decoding) + 1
          /\ decoding'[Len(decoding')].path = "await"
          /\ decoding'[Len(decoding')].serverTime = lastEvent'.serverTime
          /\ ~audioProcessor'.webCodecsDecoder
     /\ ( /\ lastEvent'.type = "binary"
          /\ stateManager.currentStreamFormat = "opus"
          /\ audioProcessor.audioContext
          /\ \/ ~audioProcessor.useNativeOpus
             \/ ~host.nativeOpus /\ ~audioProcessor.webCodecsDecoderReady ) =>
          ~audioProcessor'.useNativeOpus
     /\ (~audioProcessor.useNativeOpus /\ audioProcessor'.useNativeOpus) =>
          lastEvent'.type = "disconnect"]_vars

\* A second Opus chunk has been handed to the software decoder after the
\* first one made the switch.
C36_Witness ==
  /\ lastEvent.type = "binary"
  /\ lastEvent.path = "await"
  /\ stateManager.currentStreamFormat = "opus"
  /\ ~audioProcessor.useNativeOpus
  /\ Len(decoding) >= 2
  /\ \A i \in 1..Len(decoding) : decoding[i].path = "await"

C39_SynchronizedOnlyWhenSynced ==
  \A i \in 1..Len(wsManager.sent) :
    ( /\ wsManager.sent[i].message.type = "client/state"
      /\ wsManager.sent[i].message.state = "synchronized" ) =>
      wsManager.sent[i].seen.is_synchronized

\* C40 (playing and format): after every handler, over stream/start,
\* stream/clear and stream/end with any roles payload, binary frames,
\* decodes and disconnect, the State Store says it is playing exactly when
\* it holds a stream format.
C40_PlayingIffFormat ==
  stateManager.isPlaying <=> stateManager.currentStreamFormat # NoFormat

\* A stream/end for the player has ended a stream that had started.
C40_Witness ==
  /\ lastEvent.type = "stream/end"
  /\ ForPlayer(lastEvent.payload)
  /\ stateManager.streamGeneration >= 1
  /\ ~stateManager.isPlaying
  /\ stateManager.currentStreamFormat = NoFormat
  /\ audioProcessor.audioContext

====
